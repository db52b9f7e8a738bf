------------------------------ MODULE BftProofs ------------------------------
(***************************************************************************)
(* Theorems about the consensus of a concilium, for every number of        *)
(* witnesses, every distribution of stake, every topology and every bound. *)
(***************************************************************************)
EXTENDS Bft, ConciliumProofs, SequenceTheorems, TLAPS

-----------------------------------------------------------------------------
(***************************************************************************)
(* The operators the model is built from.                                  *)
(***************************************************************************)
\* The constants, as the proofs use them.
LEMMA Constants ==
  /\ N \in Nat \ {0} /\ SeqLength \in Nat \ {0} /\ MaxBlocks \in Nat
  /\ Live \subseteq Witness
  /\ SeedOf \in [0..MaxBlocks -> Nat]
  /\ Timeouts \in [Phases -> Nat \ {0}]
<1>1. N \in Nat \ {0} /\ SeqLength \in Nat \ {0}
  BY ConciliumAssumption DEF ConciliumAssumption
<1>2. /\ MaxBlocks \in Nat
      /\ Live \subseteq Witness
      /\ SeedOf \in [0..MaxBlocks -> Nat]
      /\ Timeouts \in [Phases -> Nat \ {0}]
  BY BftAssumption DEF BftAssumption
<1> QED
  BY <1>1, <1>2

\* Counting rounds stays within the sequence: nextRound and adjustRound never leave
\* a local round that has no proposer.
LEMMA RoundsType ==
  ASSUME NEW c \in Rounds, NEW r \in Nat
  PROVE  /\ InitRounds(c) \in Rounds
         /\ NextRound(c) \in Rounds
         /\ AdjustRound(c, r) \in Rounds
         /\ ChangeSeed(c, r) \in Rounds
         /\ GetRound(c) \in Nat
<1> USE Constants DEF Rounds
<1>1. \A d \in Rounds : InitRounds(d) \in Rounds
  BY DEF InitRounds
<1>2. NextRound(c) \in Rounds
  BY <1>1 DEF NextRound
<1>3. AdjustRound(c, r) \in Rounds
  <2> DEFINE d == IF c.base = 0 /\ c.seed # 0 THEN InitRounds(c) ELSE c
             diff == Distance(r, d.base)
  <2>1. d \in Rounds
    <3>1. InitRounds(c) \in Rounds
      BY <1>1
    <3> QED
      BY <3>1
  <2>2. diff \in Nat
    <3>1. d.base \in Nat
      BY <2>1
    <3> QED
      BY <3>1 DEF Distance
  <2>3. diff < SeqLength => [d EXCEPT !.local = diff] \in Rounds
    BY <2>1, <2>2
  <2> QED
    BY <2>1, <2>2, <2>3 DEF AdjustRound
<1>4. ChangeSeed(c, r) \in Rounds
  BY DEF ChangeSeed
<1>5. GetRound(c) \in Nat
  BY DEF GetRound
<1> QED
  BY <1>1, <1>2, <1>3, <1>4, <1>5

\* What _majority returns was said by a quorum.
LEMMA MajorityIsHeld ==
  ASSUME NEW data, Majority(data) # NoData
  PROVE  /\ \E j \in Witness : data[j] = Majority(data)
         /\ WeightOf(Holders(data, Majority(data))) >= Quorum
<1> DEFINE winners == {v \in {data[j] : j \in Witness} : Wins(data, v)}
<1>1. winners # {} /\ Majority(data) \in winners
  BY DEF Majority
<1> QED
  BY <1>1 DEF Wins

\* What a quorum says is something one of them said, or nothing.
LEMMA MajorityType ==
  ASSUME NEW S, NEW data \in [Witness -> S \cup {NoData}]
  PROVE  Majority(data) \in S \cup {NoData}
BY MajorityIsHeld

LEMMA BodyValue ==
  ASSUME NEW body \in Bodies \cup {NoData}
  PROVE  body.value \in Nat
<1>1. CASE body \in Bodies
  BY <1>1 DEF Bodies
<1>2. CASE body = NoData
  BY <1>2 DEF NoData, Body
<1> QED
  BY <1>1, <1>2

LEMMA RunConsensusType ==
  ASSUME NEW w \in Live, NEW vs \in ViewsType
  PROVE  RunConsensus(w, vs) \in Bodies \cup {NoData}
<1>1. \A i \in Witness : Column(vs, i) \in [Witness -> Bodies \cup {NoData}]
  BY DEF Column, ViewsType
<1>2. Columns(vs) \in [Witness -> Bodies \cup {NoData}]
  BY <1>1, MajorityType DEF Columns
<1>3. Majority(Columns(vs)) \in Bodies \cup {NoData}
  BY <1>2, MajorityType
<1>4. vs[w][w] \in Bodies \cup {NoData}
  BY Constants DEF ViewsType
<1> QED
  BY <1>3, <1>4 DEF RunConsensus

-----------------------------------------------------------------------------
(***************************************************************************)
(* Types.                                                                  *)
(***************************************************************************)
NetType == [Witness -> [Witness -> Seq(Envelopes)]]

LEMMA ConsType ==
  ASSUME NEW S, NEW x \in S, NEW s \in Seq(S)
  PROVE  <<x>> \o s \in Seq(S)
BY ConcatProperties, <<x>> \in Seq(S)

LEMMA NetUpdate ==
  ASSUME NEW links \in NetType, NEW v \in Witness, NEW w \in Witness,
         NEW s \in Seq(Envelopes)
  PROVE  [links EXCEPT ![v] = [@ EXCEPT ![w] = s]] \in NetType
BY DEF NetType

LEMMA FaultsType ==
  ASSUME NEW f \in [timeouts : Nat, drops : Nat, crashes : Nat]
  PROVE  /\ [f EXCEPT !.drops = @ + 1] \in [timeouts : Nat, drops : Nat, crashes : Nat]
         /\ [f EXCEPT !.crashes = @ + 1] \in [timeouts : Nat, drops : Nat, crashes : Nat]
OBVIOUS

LEMMA BroadcastType ==
  ASSUME net \in NetType, NEW w \in Witness, NEW of \in Witness,
         NEW body, [of |-> of, body |-> body] \in Envelopes
  PROVE  Broadcast(w, of, body) \in NetType
BY DEF Broadcast, NetType

LEMMA CallType ==
  ASSUME NEW at \in Live, NEW from \in Witness, NEW of \in Witness, NEW n \in Nat
  PROVE  /\ Call(at, from, of, NextRoundMsg(n)) \in Calls
         /\ Call(at, from, of, VoteMsg(n)) \in Calls
BY DEF Call, Calls, NextRoundMsg, VoteMsg, Body, Bodies

LEMMA RestartedType ==
  ASSUME NEW p \in Phases
  PROVE  Restarted(p) \in TimerType
BY Constants DEF Restarted, TimerType

LEMMA EmptyViewsType == EmptyViews \in ViewsType
BY DEF EmptyViews, ViewsType

\* The views the running call leaves are views again.
LEMMA NewViewsType ==
  ASSUME TypeOK, Running
  PROVE  /\ Frame \in Calls
         /\ Tail(todo) \in Seq(Calls)
         /\ NewViews \in ViewsType
<1>1. Frame \in Calls /\ Tail(todo) \in Seq(Calls)
  BY DEF TypeOK, Running, Frame
<1>2. Frame.at \in Live /\ Frame.from \in Witness /\ Frame.of \in Witness
      /\ Frame.body \in Bodies
  BY <1>1 DEF Calls
<1>3. views[Frame.at] \in ViewsType
  BY <1>2 DEF TypeOK
<1>4. NewViews \in ViewsType
  BY <1>2, <1>3 DEF NewViews, ViewsType
<1> QED
  BY <1>1, <1>4

LEMMA NextRoundOfType ==
  ASSUME TypeOK, NEW w \in Live, NEW c \in Rounds, NEW rest \in Seq(Calls),
         NextRoundOf(w, c, rest)
  PROVE  /\ block' \in [Live -> Blocks \cup {NoBlock}]
         /\ phase' \in [Live -> Phases]
         /\ rounds' \in [Live -> Rounds]
         /\ todo' \in Seq(Calls)
<1>1. Call(w, w, w, NextRoundMsg(GetRound(c))) \in Calls
  <2>1. GetRound(c) \in Nat
    BY RoundsType
  <2> QED
    BY <2>1, CallType, Constants
<1>2. todo' \in Seq(Calls)
  BY <1>1, ConsType DEF NextRoundOf
<1> QED
  BY <1>2 DEF NextRoundOf, TypeOK, Phases

LEMMA ProcessType ==
  ASSUME TypeOK, Process
  PROVE  TypeOK'
<1> DEFINE w == Frame.at
           agreed == RunConsensus(w, NewViews)
<1>1. /\ Frame \in Calls /\ Tail(todo) \in Seq(Calls) /\ NewViews \in ViewsType
      /\ w \in Live /\ Frame.of \in Witness /\ Frame.body \in Bodies
  BY NewViewsType DEF Process, Calls
<1>2. agreed \in Bodies \cup {NoData}
  BY <1>1, RunConsensusType
<1>3. net' \in NetType
  <2>1. [of |-> Frame.of, body |-> Frame.body] \in Envelopes
    BY <1>1 DEF Envelopes
  <2> QED
    BY <1>1, <2>1, BroadcastType, Constants DEF Process, Send, TypeOK, NetType
<1>4. /\ up' = up /\ made' = made /\ known' = known /\ tip' = tip
      /\ voted' = voted /\ faults' = faults
  BY DEF Process
<1>5. ASSUME ResetState(w)
      PROVE  views' \in [Live -> ViewsType] /\ prevViews' \in [Live -> ViewsType]
  BY <1>1, <1>5, EmptyViewsType DEF ResetState, TypeOK
<1>6. NextRound(rounds[w]) \in Rounds
  BY <1>1, RoundsType DEF TypeOK
<1> HIDE DEF agreed
<1>7. CASE Hear(w, agreed)
  BY <1>1, <1>3, <1>4, <1>7 DEF Hear, TypeOK, NetType
<1>8. CASE AgreeRound(w, agreed)
  <2>1. agreed.value \in Nat
    BY <1>2, BodyValue
  <2>2. AdjustRound(rounds[w], agreed.value) \in Rounds
    BY <1>1, <2>1, RoundsType DEF TypeOK
  <2>3. rounds' \in [Live -> Rounds]
    BY <1>1, <1>8, <2>2 DEF AgreeRound, TypeOK
  <2>4. jobs' \in [Live -> Seq(JobType)]
    <3>1. NewJob("create", NoBlock) \in JobType
      BY DEF NewJob, JobType
    <3> QED
      BY <1>1, <1>8, <3>1 DEF AgreeRound, TypeOK
  <2>5. timer' \in [Live -> TimerType] /\ phase' \in [Live -> Phases]
    BY <1>1, <1>8, RestartedType DEF AgreeRound, TypeOK, Phases
  <2>6. ResetState(w)
    BY <1>8 DEF AgreeRound
  <2> QED
    BY <1>1, <1>3, <1>4, <1>5, <1>8, <2>3, <2>4, <2>5, <2>6
    DEF AgreeRound, TypeOK, NetType
<1>9. CASE AgreeReject(w, agreed)
  <2>1. /\ block' \in [Live -> Blocks \cup {NoBlock}] /\ phase' \in [Live -> Phases]
        /\ rounds' \in [Live -> Rounds] /\ todo' \in Seq(Calls)
    BY <1>1, <1>6, <1>9, NextRoundOfType DEF AgreeReject
  <2>2. timer' \in [Live -> TimerType]
    BY <1>1, <1>9, RestartedType DEF AgreeReject, TypeOK, Phases
  <2>3. ResetState(w)
    BY <1>9 DEF AgreeReject
  <2> QED
    BY <1>3, <1>4, <1>5, <1>9, <2>1, <2>2, <2>3 DEF AgreeReject, TypeOK, NetType
<1>10. CASE AgreeBlock(w, agreed)
  <2> DEFINE b == agreed.value
             signers == Signers(NewViews, b)
  <2>1. ResetState(w) /\ jobs' = jobs /\ b # 0
    BY <1>10 DEF AgreeBlock, Reject
  <2>2. timer' \in [Live -> TimerType]
    BY <1>1, <1>10, RestartedType DEF AgreeBlock, TypeOK, Phases
  <2>3. signers \in SUBSET Witness
    BY DEF Signers
  <2>4. CASE block[w] = b /\ ~(WeightOf(signers) >= Quorum)
    <3>1. /\ NextRoundOf(w, NextRound(rounds[w]), Tail(todo))
          /\ log' = log /\ commits' = commits
      BY <1>10, <2>4 DEF AgreeBlock
    <3>2. /\ block' \in [Live -> Blocks \cup {NoBlock}] /\ phase' \in [Live -> Phases]
          /\ rounds' \in [Live -> Rounds] /\ todo' \in Seq(Calls)
      BY <1>1, <1>6, <3>1, NextRoundOfType
    <3> QED
      BY <1>3, <1>4, <1>5, <2>1, <2>2, <3>1, <3>2 DEF TypeOK, NetType
  <2>5. CASE ~(block[w] = b /\ ~(WeightOf(signers) >= Quorum))
    <3>1. /\ phase' = [phase EXCEPT ![w] = "COMMIT"]
          /\ todo' = Tail(todo) /\ block' = block /\ rounds' = rounds
      BY <1>10, <2>5 DEF AgreeBlock
    <3>2. phase' \in [Live -> Phases]
      BY <1>1, <3>1 DEF TypeOK, Phases
    <3>3. /\ log' \in [Live -> Seq([block : Blocks, signers : SUBSET Witness])]
          /\ commits' \in [Live -> Seq(Blocks)]
      <4>1. CASE block[w] = b
        <5>1. b \in Blocks
          BY <1>1, <2>1, <4>1 DEF TypeOK, NoBlock
        <5>2. /\ log' = [log EXCEPT ![w] =
                            Append(@, [block |-> b, signers |-> signers])]
              /\ commits' = [commits EXCEPT ![w] = Append(@, b)]
          BY <1>10, <2>5, <4>1 DEF AgreeBlock
        <5>3. [block |-> b, signers |-> signers]
                \in [block : Blocks, signers : SUBSET Witness]
          BY <5>1, <2>3
        <5> HIDE DEF b, signers
        <5> DEFINE Entries == [block : Blocks, signers : SUBSET Witness]
                   entry == [block |-> b, signers |-> signers]
        <5>4. log \in [Live -> Seq(Entries)] /\ commits \in [Live -> Seq(Blocks)]
          BY DEF TypeOK
        <5>5. entry \in Entries
          BY <5>3
        <5> HIDE DEF Entries, entry
        <5>6. Append(log[w], entry) \in Seq(Entries) /\ Append(commits[w], b) \in Seq(Blocks)
          BY <1>1, <5>1, <5>4, <5>5
        <5>7. /\ log' = [log EXCEPT ![w] = Append(log[w], entry)]
              /\ commits' = [commits EXCEPT ![w] = Append(commits[w], b)]
          BY <5>2 DEF entry
        <5> QED
          BY <1>1, <5>4, <5>6, <5>7 DEF Entries
      <4>2. CASE block[w] # b
        BY <1>10, <2>5, <4>2 DEF AgreeBlock, TypeOK
      <4> QED
        BY <4>1, <4>2
    <3> QED
      BY <1>1, <1>3, <1>4, <1>5, <2>1, <2>2, <3>1, <3>2, <3>3 DEF TypeOK, NetType
  <2> QED
    BY <2>4, <2>5
<1> QED
  BY <1>7, <1>8, <1>9, <1>10 DEF Process, agreed

LEMMA AcceptType ==
  ASSUME TypeOK, NEW w \in Live, NEW b \in 0..MaxBlocks, Accept(w, b)
  PROVE  /\ known' \in [Live -> SUBSET (0..MaxBlocks)]
         /\ tip' \in [Live -> 0..MaxBlocks]
         /\ rounds' \in [Live -> Rounds]
<1>1. known' \in [Live -> SUBSET (0..MaxBlocks)]
  BY DEF Accept, TypeOK
<1>2. tip' \in [Live -> 0..MaxBlocks]
  BY DEF Accept, TypeOK
<1>3. SeedOf[tip'[w]] \in Nat
  BY <1>2, Constants
<1>4. ChangeSeed(rounds[w], SeedOf[tip'[w]]) \in Rounds
  BY <1>3, RoundsType DEF TypeOK
<1> QED
  BY <1>1, <1>2, <1>4 DEF Accept, TypeOK

LEMMA ProcessValidBlockType ==
  ASSUME TypeOK, NEW w \in Live, NEW b \in Blocks, todo = << >>,
         ProcessValidBlock(w, b)
  PROVE  /\ block' \in [Live -> Blocks \cup {NoBlock}]
         /\ phase' \in [Live -> Phases]
         /\ todo' \in Seq(Calls)
         /\ voted' \in [Live -> SUBSET [block : Blocks, round : Nat]]
<1>1. CASE phase[w] = "BLOCK"
  <2>1. b \in Nat
    BY Constants DEF Blocks
  <2>2. Call(w, w, w, VoteMsg(b)) \in Calls
    BY <2>1, CallType, Constants
  <2>3. GetRound(rounds[w]) \in Nat
    BY RoundsType DEF TypeOK
  <2> DEFINE vote == [block |-> b, round |-> GetRound(rounds[w])]
             call == Call(w, w, w, VoteMsg(b))
  <2>4. /\ block' = [block EXCEPT ![w] = b]
        /\ phase' = [phase EXCEPT ![w] = "VOTE_BLOCK"]
        /\ todo' = <<call>>
        /\ voted' = [voted EXCEPT ![w] = @ \cup {vote}]
    BY <1>1 DEF ProcessValidBlock
  <2>5. vote \in [block : Blocks, round : Nat]
    BY <2>3
  <2> HIDE DEF vote, call
  <2>6. todo' \in Seq(Calls)
    BY <2>2, <2>4 DEF call
  <2> QED
    BY <2>4, <2>5, <2>6 DEF TypeOK, Phases
<1>2. CASE phase[w] # "BLOCK"
  BY <1>2 DEF ProcessValidBlock, TypeOK
<1> QED
  BY <1>1, <1>2

\* The first job of w, and what is left when it is done.
LEMMA JobIsTyped ==
  ASSUME TypeOK, NEW w \in Live, NEW kind, NEW running, HasJob(w, kind, running)
  PROVE  /\ todo = << >>
         /\ Job(w) \in JobType
         /\ Tail(jobs[w]) \in Seq(JobType)
         /\ running => Job(w).block \in Blocks
         /\ kind = "verify" => Job(w).block \in Blocks
         /\ Job(w).kind = kind
         /\ [jobs EXCEPT ![w] = Tail(@)] \in [Live -> Seq(JobType)]
         /\ \A j \in JobType :
              [jobs EXCEPT ![w] = <<j>> \o Tail(@)] \in [Live -> Seq(JobType)]
<1>1. /\ jobs \in [Live -> Seq(JobType)] /\ jobs[w] \in Seq(JobType)
      /\ jobs[w] # << >> /\ todo = << >>
  BY DEF TypeOK, HasJob, Running
<1>2. Job(w) \in JobType /\ Tail(jobs[w]) \in Seq(JobType)
  BY <1>1 DEF Job
<1>3. Job(w).kind = kind /\ Job(w).running = running
  BY DEF HasJob
<1>4. /\ running => Job(w).block \in Blocks
      /\ kind = "verify" => Job(w).block \in Blocks
  BY <1>2, <1>3 DEF JobType
<1>5. \A j \in JobType : <<j>> \o Tail(jobs[w]) \in Seq(JobType)
  BY <1>2, ConsType
<1> QED
  BY <1>1, <1>2, <1>3, <1>4, <1>5

\* Every action of Next but Process keeps the types.
LEMMA StepType ==
  ASSUME TypeOK, Next, ~Process
  PROVE  TypeOK'
<1>1. CASE Tick
  <2>1. timer' \in [Live -> TimerType]
    <3>1. timer \in [Live -> TimerType]
      BY DEF TypeOK
    <3>2. \A w \in Live : [timer[w] EXCEPT !.left = @ - 1] \in TimerType
      <4> SUFFICES ASSUME NEW w \in Live
                   PROVE  [timer[w] EXCEPT !.left = @ - 1] \in TimerType
        OBVIOUS
      <4>1. timer[w] \in TimerType /\ timer[w].left > 0
        BY <1>1, <3>1 DEF Tick
      <4> QED
        BY <4>1 DEF TimerType
    <3> QED
      BY <1>1, <3>2 DEF Tick
  <2> QED
    BY <1>1, <2>1 DEF Tick, TypeOK, chainVars
<1>2. ASSUME NEW w \in Live, TimerFires(w)
      PROVE  TypeOK'
  <2> DEFINE c == IF phase[w] = "ROUND_CHANGE" THEN InitRounds(rounds[w])
                                               ELSE NextRound(rounds[w])
  <2>2. rounds[w] \in Rounds /\ 0 \in Nat
    BY <1>2 DEF TypeOK
  <2>3. InitRounds(rounds[w]) \in Rounds /\ NextRound(rounds[w]) \in Rounds
    BY <2>2, RoundsType
  <2>4. timer' \in [Live -> TimerType]
    <3>1. Restarted("ROUND_CHANGE") \in TimerType
      BY RestartedType DEF Phases
    <3> QED
      BY <1>2, <3>1 DEF TimerFires, TypeOK, TimerType
  <2>5. faults' \in [timeouts : Nat, drops : Nat, crashes : Nat]
    BY <1>2 DEF TimerFires, TypeOK
  <2>6. /\ block' \in [Live -> Blocks \cup {NoBlock}] /\ phase' \in [Live -> Phases]
        /\ rounds' \in [Live -> Rounds] /\ todo' \in Seq(Calls)
    <3>1. NextRoundOf(w, c, << >>)
      BY <1>2 DEF TimerFires
    <3>2. c \in Rounds /\ << >> \in Seq(Calls)
      BY <2>3
    <3> HIDE DEF c
    <3> QED
      BY <1>2, <3>1, <3>2, NextRoundOfType
  <2> QED
    BY <1>2, <2>4, <2>5, <2>6 DEF TimerFires, TypeOK, chainVars
<1>3. ASSUME NEW w \in Live, StartVerify(w)
      PROVE  TypeOK'
  <2> DEFINE j == [Job(w) EXCEPT !.running = TRUE,
                                 !.ok = made[Job(w).block].parent = tip[w]]
  <2>1. HasJob(w, "verify", FALSE)
    BY <1>3 DEF StartVerify
  <2>2. j \in JobType
    BY <1>3, <2>1, JobIsTyped DEF JobType
  <2>3. jobs' = [jobs EXCEPT ![w] = <<j>> \o Tail(@)]
    BY <1>3 DEF StartVerify, CompareParents
  <2> HIDE DEF j
  <2>4. jobs' \in [Live -> Seq(JobType)]
    BY <1>3, <2>1, <2>2, <2>3, JobIsTyped
  <2> QED
    BY <1>3, <2>4 DEF StartVerify, TypeOK, consensusVars, chainVars
<1>4. ASSUME NEW w \in Live, StartCreate(w)
      PROVE  TypeOK'
  <2> DEFINE j == [Job(w) EXCEPT !.running = TRUE, !.block = Len(made) + 1]
             m == [maker |-> w, parent |-> tip[w]]
  <2>1. HasJob(w, "create", FALSE)
    BY <1>4 DEF StartCreate
  <2>2. Len(made) + 1 \in Blocks
    <3>1. Len(made) \in Nat /\ Len(made) < MaxBlocks
      BY <1>4 DEF StartCreate, TypeOK
    <3> QED
      BY <3>1, Constants DEF Blocks
  <2>3. j \in JobType
    <3>1. Job(w) \in JobType
      BY <1>4, <2>1, JobIsTyped
    <3> QED
      BY <2>2, <3>1 DEF JobType
  <2>4. m \in [maker : Live, parent : 0..MaxBlocks]
    BY <1>4 DEF TypeOK
  <2>5. jobs' = [jobs EXCEPT ![w] = <<j>> \o Tail(@)] /\ made' = Append(made, m)
    BY <1>4 DEF StartCreate
  <2> HIDE DEF j, m
  <2>6. jobs' \in [Live -> Seq(JobType)]
    BY <1>4, <2>1, <2>3, <2>5, JobIsTyped
  <2>7. made' \in Seq([maker : Live, parent : 0..MaxBlocks]) /\ Len(made') <= MaxBlocks
    BY <1>4, <2>4, <2>5, Constants DEF TypeOK, StartCreate
  <2> QED
    BY <1>4, <2>6, <2>7 DEF StartCreate, TypeOK, consensusVars
<1>5. ASSUME NEW w \in Live, SuppressBlock(w)
      PROVE  TypeOK'
  <2>1. jobs' \in [Live -> Seq(JobType)]
    BY <1>5, JobIsTyped DEF SuppressBlock
  <2> QED
    BY <1>5, <2>1 DEF SuppressBlock, TypeOK, consensusVars, chainVars
<1>6. ASSUME NEW w \in Live, FinishCreate(w)
      PROVE  TypeOK'
  <2>1. HasJob(w, "create", TRUE)
    BY <1>6 DEF FinishCreate
  <2>2. todo = << >> /\ Job(w).block \in Blocks
    BY <1>6, <2>1, JobIsTyped
  <2>3. jobs' \in [Live -> Seq(JobType)]
    BY <1>6, <2>1, JobIsTyped DEF FinishCreate
  <2>4. net' \in NetType
    <3>1. [of |-> w, body |-> BlockMsg(Job(w).block)] \in Envelopes
      BY <1>6, <2>2, Constants DEF Envelopes, BlockMsg, Body
    <3> QED
      BY <1>6, <3>1, BroadcastType, Constants DEF FinishCreate, TypeOK, NetType
  <2>5. /\ block' \in [Live -> Blocks \cup {NoBlock}] /\ phase' \in [Live -> Phases]
        /\ todo' \in Seq(Calls)
        /\ voted' \in [Live -> SUBSET [block : Blocks, round : Nat]]
    BY <1>6, <2>2, ProcessValidBlockType DEF FinishCreate
  <2> QED
    BY <1>6, <2>3, <2>4, <2>5 DEF FinishCreate, TypeOK, NetType, chainVars
<1>7. ASSUME NEW w \in Live, FinishVerify(w)
      PROVE  TypeOK'
  <2>1. HasJob(w, "verify", TRUE)
    BY <1>7 DEF FinishVerify
  <2>2. todo = << >> /\ Job(w).block \in Blocks
    BY <1>7, <2>1, JobIsTyped
  <2>3. jobs' \in [Live -> Seq(JobType)]
    BY <1>7, <2>1, JobIsTyped DEF FinishVerify
  <2>4. /\ block' \in [Live -> Blocks \cup {NoBlock}] /\ phase' \in [Live -> Phases]
        /\ todo' \in Seq(Calls)
        /\ voted' \in [Live -> SUBSET [block : Blocks, round : Nat]]
    BY <1>7, <2>2, ProcessValidBlockType DEF FinishVerify
  <2> QED
    BY <1>7, <2>3, <2>4 DEF FinishVerify, TypeOK, chainVars
<1>8. ASSUME NEW w \in Live, InvalidBlock(w)
      PROVE  TypeOK'
  <2>1. HasJob(w, "verify", TRUE)
    BY <1>8 DEF InvalidBlock
  <2>2. jobs' \in [Live -> Seq(JobType)]
    BY <1>8, <2>1, JobIsTyped DEF InvalidBlock
  <2>3. /\ block' \in [Live -> Blocks \cup {NoBlock}] /\ phase' \in [Live -> Phases]
        /\ rounds' \in [Live -> Rounds] /\ todo' \in Seq(Calls)
    <3>1. CASE phase[w] = "BLOCK"
      <4> DEFINE call == Call(w, w, w, VoteMsg(Reject))
      <4>1. call \in Calls
        BY <1>8, CallType, Constants DEF Reject
      <4>2. NextRoundOf(w, NextRound(rounds[w]), <<call>>)
        BY <1>8, <3>1 DEF InvalidBlock
      <4> HIDE DEF call
      <4>3. NextRound(rounds[w]) \in Rounds
        BY <1>8, RoundsType DEF TypeOK
      <4>4. <<call>> \in Seq(Calls)
        BY <4>1
      <4> QED
        BY <1>8, <4>2, <4>3, <4>4, NextRoundOfType
    <3>2. CASE phase[w] # "BLOCK"
      BY <1>8, <3>2 DEF InvalidBlock, TypeOK
    <3> QED
      BY <3>1, <3>2
  <2> QED
    BY <1>8, <2>2, <2>3 DEF InvalidBlock, TypeOK, chainVars
<1>9. ASSUME NEW w \in Live, FinishCommit(w)
      PROVE  TypeOK'
  <2>1. Head(commits[w]) \in 0..MaxBlocks /\ Tail(commits[w]) \in Seq(Blocks)
    <3>1. commits[w] \in Seq(Blocks) /\ commits[w] # << >>
      BY <1>9 DEF FinishCommit, TypeOK
    <3>2. Head(commits[w]) \in Blocks /\ Tail(commits[w]) \in Seq(Blocks)
      BY <3>1
    <3> QED
      BY <3>2, Constants DEF Blocks
  <2>2. commits' \in [Live -> Seq(Blocks)]
    BY <1>9, <2>1 DEF FinishCommit, TypeOK
  <2>3. /\ known' \in [Live -> SUBSET (0..MaxBlocks)]
        /\ tip' \in [Live -> 0..MaxBlocks] /\ rounds' \in [Live -> Rounds]
    BY <1>9, <2>1, AcceptType DEF FinishCommit, TypeOK
  <2> QED
    BY <1>9, <2>2, <2>3 DEF FinishCommit, TypeOK
<1>10. ASSUME NEW v \in Live, NEW w \in Live, ReceiveBlock(v, w)
       PROVE  TypeOK'
  <2>1. PICK b \in known[v] \ known[w] : Accept(w, b)
    BY <1>10 DEF ReceiveBlock
  <2>2. b \in 0..MaxBlocks
    BY <1>10, <2>1 DEF TypeOK
  <2>3. /\ known' \in [Live -> SUBSET (0..MaxBlocks)]
        /\ tip' \in [Live -> 0..MaxBlocks] /\ rounds' \in [Live -> Rounds]
    BY <1>10, <2>1, <2>2, AcceptType
  <2> QED
    BY <1>10, <2>3 DEF ReceiveBlock, TypeOK
<1>11. ASSUME NEW v \in Live, NEW w \in Live, DeliverWord(v, w)
       PROVE  TypeOK'
  <2>1. /\ v \in Witness /\ w \in Witness /\ net[v][w] \in Seq(Envelopes)
        /\ net[v][w] # << >>
    BY <1>11, Constants DEF TypeOK, DeliverWord
  <2>2. Received(v, w) \in Envelopes /\ Tail(net[v][w]) \in Seq(Envelopes)
    BY <2>1 DEF Received
  <2>3. Received(v, w).body \in Bodies /\ Received(v, w).of \in Witness
    BY <1>11, <2>2 DEF DeliverWord, Envelopes, Bodies
  <2>4. net' \in NetType
    <3>1. net \in NetType
      BY DEF TypeOK, NetType
    <3>2. net' = [net EXCEPT ![v] = [@ EXCEPT ![w] = Tail(net[v][w])]]
      BY <1>11 DEF DeliverWord, Take
    <3> QED
      BY <2>1, <2>2, <3>1, <3>2, NetUpdate
  <2> DEFINE m == Received(v, w)
             own == Call(w, w, v, m.body)
             his == Call(w, v, m.of, m.body)
  <2>5. own \in Calls /\ his \in Calls
    BY <1>11, <2>1, <2>3 DEF Call, Calls
  <2>6. todo' = IF m.of = v THEN <<own, his>> ELSE <<his>>
    BY <1>11 DEF DeliverWord
  <2> HIDE DEF m, own, his
  <2>7. todo' \in Seq(Calls)
    BY <2>5, <2>6
  <2> QED
    BY <1>11, <2>4, <2>7 DEF DeliverWord, TypeOK, NetType, consensusVars, chainVars
<1>12. ASSUME NEW v \in Live, NEW w \in Live, DeliverBlock(v, w)
       PROVE  TypeOK'
  <2>1. /\ v \in Witness /\ w \in Witness /\ net[v][w] \in Seq(Envelopes)
        /\ net[v][w] # << >>
    BY <1>12, Constants DEF TypeOK, DeliverBlock
  <2>2. Received(v, w) \in Envelopes /\ Tail(net[v][w]) \in Seq(Envelopes)
    BY <2>1 DEF Received
  <2>3. Received(v, w).body.value \in Blocks
    BY <1>12, <2>2 DEF DeliverBlock, Envelopes, Bodies
  <2>4. net' \in NetType
    <3>1. net \in NetType
      BY DEF TypeOK, NetType
    <3>2. net' = [net EXCEPT ![v] = [@ EXCEPT ![w] = Tail(net[v][w])]]
      BY <1>12 DEF DeliverBlock, Take
    <3> QED
      BY <2>1, <2>2, <3>1, <3>2, NetUpdate
  <2> DEFINE j == NewJob("verify", Received(v, w).body.value)
  <2>5. j \in JobType
    BY <2>3 DEF NewJob, JobType
  <2>6. jobs' = [jobs EXCEPT ![w] = Append(@, j)] \/ jobs' = jobs
    BY <1>12 DEF DeliverBlock
  <2> HIDE DEF j
  <2>7. jobs' \in [Live -> Seq(JobType)]
    <3>1. jobs \in [Live -> Seq(JobType)] /\ jobs[w] \in Seq(JobType)
      BY <1>12 DEF TypeOK
    <3>2. Append(jobs[w], j) \in Seq(JobType)
      BY <2>5, <3>1
    <3> QED
      BY <1>12, <2>6, <3>1, <3>2
  <2> QED
    BY <1>12, <2>4, <2>7 DEF DeliverBlock, TypeOK, NetType, consensusVars, chainVars
<1>13. ASSUME NEW w \in Live, NEW v \in Live, Disconnect(w, v) \/ Reconnect(w, v)
       PROVE  TypeOK'
  <2>1. CASE Disconnect(w, v)
    <3>1. net' \in NetType
      <4> DEFINE one == [net EXCEPT ![w] = [@ EXCEPT ![v] = << >>]]
      <4>1. net \in NetType /\ w \in Witness /\ v \in Witness /\ << >> \in Seq(Envelopes)
        BY <1>13, Constants DEF TypeOK, NetType
      <4>2. one \in NetType
        BY <4>1, NetUpdate
      <4>3. [one EXCEPT ![v] = [@ EXCEPT ![w] = << >>]] \in NetType
        BY <4>1, <4>2, NetUpdate
      <4>4. net' = [one EXCEPT ![v] = [@ EXCEPT ![w] = << >>]]
        BY <2>1 DEF Disconnect
      <4> QED
        BY <4>3, <4>4
    <3>2. faults' \in [timeouts : Nat, drops : Nat, crashes : Nat]
      <4>1. faults' = [faults EXCEPT !.drops = @ + 1]
        BY <2>1 DEF Disconnect
      <4> QED
        BY <4>1, FaultsType DEF TypeOK
    <3> QED
      BY <2>1, <3>1, <3>2 DEF Disconnect, TypeOK, NetType, consensusVars, chainVars
  <2>2. CASE Reconnect(w, v)
    BY <2>2 DEF Reconnect, TypeOK, consensusVars, chainVars
  <2> QED
    BY <1>13, <2>1, <2>2
<1>14. ASSUME NEW w \in Live, Crash(w)
       PROVE  TypeOK'
  <2>1. net' \in NetType
    BY <1>14 DEF Crash, TypeOK, NetType
  <2>2. [seed |-> SeedOf[tip[w]], base |-> 0, local |-> 0] \in Rounds
    <3>1. SeedOf[tip[w]] \in Nat
      <4>1. tip[w] \in 0..MaxBlocks
        BY <1>14 DEF TypeOK
      <4> QED
        BY <4>1, Constants
    <3> QED
      BY <3>1, Constants DEF Rounds
  <2>3. rounds' \in [Live -> Rounds]
    BY <1>14, <2>2 DEF Crash, TypeOK
  <2>4. views' \in [Live -> ViewsType] /\ prevViews' \in [Live -> ViewsType]
    BY <1>14, EmptyViewsType DEF Crash, TypeOK
  <2>5. timer' \in [Live -> TimerType] /\ phase' \in [Live -> Phases]
    BY <1>14, RestartedType DEF Crash, TypeOK, Phases
  <2>6. jobs' \in [Live -> Seq(JobType)] /\ commits' \in [Live -> Seq(Blocks)]
    BY <1>14 DEF Crash, TypeOK
  <2>7. faults' \in [timeouts : Nat, drops : Nat, crashes : Nat] /\ up' \subseteq Links
    <3>1. faults' = [faults EXCEPT !.crashes = @ + 1] /\ up' \subseteq up
      BY <1>14 DEF Crash
    <3> QED
      BY <3>1, FaultsType DEF TypeOK
  <2>8. block' \in [Live -> Blocks \cup {NoBlock}]
    BY <1>14 DEF Crash, TypeOK
  <2> QED
    BY <1>14, <2>1, <2>3, <2>4, <2>5, <2>6, <2>7, <2>8 DEF Crash, TypeOK, NetType
<1> QED
  BY <1>1, <1>2, <1>3, <1>4, <1>5, <1>6, <1>7, <1>8, <1>9, <1>10, <1>11, <1>12, <1>13,
     <1>14 DEF Next, Work, Deliver, Fault

LEMMA InitType == Init => TypeOK
<1> SUFFICES ASSUME Init
             PROVE  TypeOK
  OBVIOUS
<1>1. rounds \in [Live -> Rounds]
  <2>1. [seed |-> SeedOf[Genesis], base |-> 0, local |-> 0] \in Rounds
    BY Constants DEF Rounds, Genesis
  <2> QED
    BY <2>1 DEF Init
<1>2. timer \in [Live -> TimerType]
  <2>1. Timeouts["ROUND_CHANGE"] \in Nat
    BY Constants DEF Phases
  <2> QED
    BY <2>1 DEF Init, TimerType
<1>3. views \in [Live -> ViewsType] /\ prevViews \in [Live -> ViewsType]
  BY EmptyViewsType DEF Init
<1>4. /\ known \in [Live -> SUBSET (0..MaxBlocks)] /\ tip \in [Live -> 0..MaxBlocks]
      /\ made \in Seq([maker : Live, parent : 0..MaxBlocks]) /\ Len(made) <= MaxBlocks
  BY Constants DEF Init, Genesis
<1>5. /\ phase \in [Live -> Phases] /\ block \in [Live -> Blocks \cup {NoBlock}]
      /\ voted \in [Live -> SUBSET [block : Blocks, round : Nat]]
      /\ faults \in [timeouts : Nat, drops : Nat, crashes : Nat] /\ up \subseteq Links
  BY DEF Init, Phases
<1>6. /\ todo \in Seq(Calls) /\ net \in [Witness -> [Witness -> Seq(Envelopes)]]
      /\ jobs \in [Live -> Seq(JobType)] /\ commits \in [Live -> Seq(Blocks)]
      /\ log \in [Live -> Seq([block : Blocks, signers : SUBSET Witness])]
  BY DEF Init
<1> QED
  BY <1>1, <1>2, <1>3, <1>4, <1>5, <1>6 DEF TypeOK

LEMMA NextType == TypeOK /\ [Next]_vars => TypeOK'
<1>1. ASSUME TypeOK, Next
      PROVE  TypeOK'
  BY <1>1, ProcessType, StepType
<1>2. ASSUME TypeOK, UNCHANGED vars
      PROVE  TypeOK'
  BY <1>2 DEF TypeOK, vars
<1> QED
  BY <1>1, <1>2

\* The state of BftConsensus and of Witness keeps its types, whatever the size of
\* the concilium: among them that the local round never leaves the sequence of
\* proposers (getProposerAddress asserts it) and that only blocks are held.
THEOREM TypeCorrect == Spec => []TypeOK
BY InitType, NextType, PTL DEF Spec

-----------------------------------------------------------------------------
(***************************************************************************)
(* Certificates.  CommitCertified is not inductive: that the signers of a  *)
(* committed block voted for it rests on every vote that is stored in a    *)
(* view, on its way, or about to be processed being one that was given.    *)
(***************************************************************************)
Honest(i, body) ==
  body.state = "VOTE_BLOCK" /\ body.value # Reject =>
    i \in Live /\ body.value \in BlocksVoted(i)

TrueCalls == {c \in Calls : Honest(c.of, c.body)}
TrueEnvelopes == {e \in Envelopes : Honest(e.of, e.body)}
TrueViews == {vs \in ViewsType : \A j, i \in Witness : Honest(i, vs[j][i])}
TrueNet == [Witness -> [Witness -> Seq(TrueEnvelopes)]]

\* Nobody is said to have voted for a block it has not voted for.
VotesTrue ==
  /\ todo \in Seq(TrueCalls)
  /\ net \in TrueNet
  /\ views \in [Live -> TrueViews]

\* A witness has voted for the block it holds.
HeldIsVoted ==
  \A w \in Live : block[w] # NoBlock => block[w] \in BlocksVoted(w)

CertInv == TypeOK /\ VotesTrue /\ HeldIsVoted /\ CommitCertified

\* Votes are not taken back.
VotesGrow == \A w \in Live : BlocksVoted(w) \subseteq BlocksVoted(w)'

LEMMA StillTrue ==
  ASSUME VotesGrow
  PROVE  /\ TrueCalls \subseteq TrueCalls'
         /\ TrueEnvelopes \subseteq TrueEnvelopes'
         /\ TrueViews \subseteq TrueViews'
<1>1. \A i, body : Honest(i, body) => Honest(i, body)'
  BY DEF VotesGrow, Honest
<1> QED
  BY <1>1 DEF TrueCalls, TrueEnvelopes, TrueViews

LEMMA SeqSubset ==
  ASSUME NEW S, NEW T, S \subseteq T
  PROVE  Seq(S) \subseteq Seq(T)
OBVIOUS

\* What is kept, or only shortened, stays true.
LEMMA KeptTrue ==
  ASSUME VotesGrow, VotesTrue
  PROVE  /\ todo \in Seq(TrueCalls')
         /\ net \in TrueNet'
         /\ views \in [Live -> TrueViews']
<1>1. todo \in Seq(TrueCalls')
  BY StillTrue, SeqSubset DEF VotesTrue
<1>2. Seq(TrueEnvelopes) \subseteq Seq(TrueEnvelopes')
  BY StillTrue, SeqSubset
<1>3. net \in TrueNet'
  BY <1>2 DEF VotesTrue, TrueNet
<1>4. views \in [Live -> TrueViews']
  BY StillTrue DEF VotesTrue
<1> QED
  BY <1>1, <1>3, <1>4

LEMMA SameVotes ==
  ASSUME voted' = voted
  PROVE  VotesGrow
BY DEF VotesGrow, BlocksVoted

LEMMA VoteGrows ==
  ASSUME TypeOK, NEW w \in Live, NEW b \in Blocks, ProcessValidBlock(w, b)
  PROVE  /\ VotesGrow
         /\ phase[w] = "BLOCK" => b \in BlocksVoted(w)'
<1>1. CASE phase[w] = "BLOCK"
  <2> DEFINE vote == [block |-> b, round |-> GetRound(rounds[w])]
  <2>1. voted' = [voted EXCEPT ![w] = @ \cup {vote}]
    BY <1>1 DEF ProcessValidBlock
  <2>2. vote.block = b
    OBVIOUS
  <2> HIDE DEF vote
  <2>3. vote \in voted'[w] /\ \A v \in Live : voted[v] \subseteq voted'[v]
    BY <2>1 DEF TypeOK
  <2> QED
    BY <2>2, <2>3 DEF VotesGrow, BlocksVoted
<1>2. CASE phase[w] # "BLOCK"
  BY <1>2, SameVotes DEF ProcessValidBlock
<1> QED
  BY <1>1, <1>2

\* A certificate stays one.
LEMMA OldCertificates ==
  ASSUME VotesGrow, CommitCertified, log' = log
  PROVE  CommitCertified'
BY DEF CommitCertified, VotesGrow

LEMMA StillHeld ==
  ASSUME VotesGrow, HeldIsVoted, block' = block
  PROVE  HeldIsVoted'
BY DEF HeldIsVoted, VotesGrow

\* An announced round says nothing of votes, and no block is held after it.
LEMMA NextRoundOfTrue ==
  ASSUME CertInv, voted' = voted, NEW w \in Live, NEW c \in Rounds,
         NEW rest \in Seq(TrueCalls), NextRoundOf(w, c, rest)
  PROVE  todo' \in Seq(TrueCalls') /\ HeldIsVoted'
<1> DEFINE call == Call(w, w, w, NextRoundMsg(GetRound(c)))
<1>1. VotesGrow
  BY SameVotes
<1>2. call \in Calls
  <2>1. GetRound(c) \in Nat
    BY RoundsType
  <2> QED
    BY <2>1, CallType, Constants
<1>3. call \in TrueCalls
  BY <1>2 DEF TrueCalls, Honest, Call, NextRoundMsg, Body
<1>4. todo' = <<call>> \o rest
  BY DEF NextRoundOf
<1> HIDE DEF call
<1>5. todo' \in Seq(TrueCalls)
  BY <1>3, <1>4, ConsType
<1>6. todo' \in Seq(TrueCalls')
  BY <1>1, <1>5, StillTrue, SeqSubset
<1>7. block' = [block EXCEPT ![w] = NoBlock]
  BY DEF NextRoundOf
<1>8. HeldIsVoted'
  BY <1>1, <1>7 DEF HeldIsVoted, VotesGrow, CertInv, TypeOK
<1> QED
  BY <1>6, <1>8

\* The signers of a block, by views that are true, voted for it.
LEMMA SignersVoted ==
  ASSUME NEW vs \in TrueViews, NEW b, b # Reject, NEW i \in Signers(vs, b)
  PROVE  i \in Live /\ b \in BlocksVoted(i)
<1>1. i \in Witness /\ Majority(Column(vs, i)) = VoteMsg(b)
  BY DEF Signers, Columns
<1>2. VoteMsg(b) # NoData
  BY DEF VoteMsg, NoData, Body
<1>3. PICK j \in Witness : Column(vs, i)[j] = VoteMsg(b)
  BY <1>1, <1>2, MajorityIsHeld
<1>4. vs[j][i] = VoteMsg(b)
  BY <1>1, <1>3 DEF Column
<1>5. Honest(i, VoteMsg(b))
  BY <1>1, <1>4 DEF TrueViews
<1> QED
  BY <1>5 DEF Honest, VoteMsg, Body

LEMMA TrueBroadcast ==
  ASSUME net \in TrueNet, NEW w \in Witness, NEW of \in Witness, NEW body,
         [of |-> of, body |-> body] \in TrueEnvelopes
  PROVE  Broadcast(w, of, body) \in TrueNet
BY DEF Broadcast, TrueNet

LEMMA EmptyViewsTrue == EmptyViews \in TrueViews
<1>1. \A j, i \in Witness : Honest(i, EmptyViews[j][i])
  BY DEF EmptyViews, Honest, NoData, Body
<1> QED
  BY <1>1, EmptyViewsType DEF TrueViews

\* The running call is true, and so are the views it leaves.
LEMMA TrueFrame ==
  ASSUME CertInv, Running
  PROVE  /\ Frame \in TrueCalls /\ Tail(todo) \in Seq(TrueCalls)
         /\ NewViews \in TrueViews
         /\ Frame.at \in Live /\ Frame.of \in Witness /\ Frame.body \in Bodies
<1>1. todo \in Seq(TrueCalls) /\ todo # << >>
  BY DEF CertInv, VotesTrue, Running
<1>2. Frame \in TrueCalls /\ Tail(todo) \in Seq(TrueCalls)
  BY <1>1 DEF Frame
<1>3. /\ Frame.at \in Live /\ Frame.from \in Witness /\ Frame.of \in Witness
      /\ Frame.body \in Bodies /\ Honest(Frame.of, Frame.body)
  BY <1>2 DEF TrueCalls, Calls
<1>4. NewViews \in ViewsType
  BY NewViewsType DEF CertInv
<1>5. \A j, i \in Witness : Honest(i, NewViews[j][i])
  <2> SUFFICES ASSUME NEW j \in Witness, NEW i \in Witness
               PROVE  Honest(i, NewViews[j][i])
    OBVIOUS
  <2>1. views[Frame.at] \in ViewsType /\ Honest(i, views[Frame.at][j][i])
    BY <1>3 DEF CertInv, VotesTrue, TrueViews
  <2>2. CASE j = Frame.from /\ i = Frame.of
    <3>1. NewViews[j][i] = Frame.body
      BY <1>3, <2>1, <2>2 DEF NewViews, ViewsType
    <3> QED
      BY <1>3, <2>2, <3>1
  <2>3. CASE ~(j = Frame.from /\ i = Frame.of)
    <3>1. NewViews[j][i] = views[Frame.at][j][i]
      BY <1>3, <2>1, <2>3 DEF NewViews, ViewsType
    <3> QED
      BY <2>1, <3>1
  <2> QED
    BY <2>2, <2>3
<1> QED
  BY <1>2, <1>3, <1>4, <1>5 DEF TrueViews

LEMMA ProcessCert ==
  ASSUME CertInv, Process
  PROVE  CertInv'
<1> DEFINE w == Frame.at
           agreed == RunConsensus(w, NewViews)
<1>1. /\ Frame \in TrueCalls /\ Tail(todo) \in Seq(TrueCalls)
      /\ NewViews \in TrueViews /\ w \in Live
      /\ Frame.of \in Witness /\ Frame.body \in Bodies
  BY TrueFrame DEF Process
<1>2. TypeOK'
  BY ProcessType DEF CertInv
<1>3. voted' = voted /\ VotesGrow
  BY SameVotes DEF Process
<1>4. net' \in TrueNet'
  <2>1. [of |-> Frame.of, body |-> Frame.body] \in TrueEnvelopes
    BY <1>1 DEF TrueEnvelopes, TrueCalls, Envelopes
  <2>2. net \in TrueNet
    BY DEF CertInv, VotesTrue
  <2>3. net' \in TrueNet
    BY <1>1, <2>1, <2>2, TrueBroadcast, Constants DEF Process, Send
  <2>4. Seq(TrueEnvelopes) \subseteq Seq(TrueEnvelopes')
    BY <1>3, StillTrue, SeqSubset
  <2> QED
    BY <2>3, <2>4 DEF TrueNet
<1>5. Tail(todo) \in Seq(TrueCalls')
  BY <1>1, <1>3, StillTrue, SeqSubset
<1>6. views \in [Live -> TrueViews'] /\ NewViews \in TrueViews'
      /\ EmptyViews \in TrueViews'
  BY <1>1, <1>3, KeptTrue, StillTrue, EmptyViewsTrue DEF CertInv
<1>7. NextRound(rounds[w]) \in Rounds
  BY <1>1, RoundsType DEF CertInv, TypeOK
<1>8. ResetState(w) => views' \in [Live -> TrueViews']
  BY <1>1, <1>6 DEF ResetState
<1>9. block' = block => HeldIsVoted'
  BY <1>3, StillHeld DEF CertInv
<1>10. log' = log => CommitCertified'
  BY <1>3, OldCertificates DEF CertInv
<1> HIDE DEF agreed
<1>11. CASE Hear(w, agreed)
  <2>1. views' \in [Live -> TrueViews'] /\ todo' = Tail(todo)
        /\ block' = block /\ log' = log
    BY <1>1, <1>6, <1>11 DEF Hear
  <2> QED
    BY <1>2, <1>4, <1>5, <1>9, <1>10, <2>1 DEF CertInv, VotesTrue
<1>12. CASE AgreeRound(w, agreed)
  <2>1. ResetState(w) /\ todo' = Tail(todo) /\ block' = block /\ log' = log
    BY <1>12 DEF AgreeRound
  <2> QED
    BY <1>2, <1>4, <1>5, <1>8, <1>9, <1>10, <2>1 DEF CertInv, VotesTrue
<1>13. CASE AgreeReject(w, agreed)
  <2>1. /\ ResetState(w) /\ log' = log
        /\ NextRoundOf(w, NextRound(rounds[w]), Tail(todo))
    BY <1>13 DEF AgreeReject
  <2>2. todo' \in Seq(TrueCalls') /\ HeldIsVoted'
    BY <1>1, <1>3, <1>7, <2>1, NextRoundOfTrue
  <2> QED
    BY <1>2, <1>4, <1>8, <1>10, <2>1, <2>2 DEF CertInv, VotesTrue
<1>14. CASE AgreeBlock(w, agreed)
  <2> DEFINE b == agreed.value
             signers == Signers(NewViews, b)
  <2>1. ResetState(w) /\ b # Reject
    BY <1>14 DEF AgreeBlock
  <2>2. CASE block[w] = b /\ ~(WeightOf(signers) >= Quorum)
    <3>1. /\ NextRoundOf(w, NextRound(rounds[w]), Tail(todo)) /\ log' = log
      BY <1>14, <2>2 DEF AgreeBlock
    <3>2. todo' \in Seq(TrueCalls') /\ HeldIsVoted'
      BY <1>1, <1>3, <1>7, <3>1, NextRoundOfTrue
    <3> QED
      BY <1>2, <1>4, <1>8, <1>10, <2>1, <3>1, <3>2 DEF CertInv, VotesTrue
  <2>3. CASE block[w] # b
    <3>1. todo' = Tail(todo) /\ block' = block /\ log' = log
      BY <1>14, <2>3 DEF AgreeBlock
    <3> QED
      BY <1>2, <1>4, <1>5, <1>8, <1>9, <1>10, <2>1, <3>1 DEF CertInv, VotesTrue
  <2>4. CASE block[w] = b /\ WeightOf(signers) >= Quorum
    <3> DEFINE entry == [block |-> b, signers |-> signers]
    <3>1. /\ todo' = Tail(todo) /\ block' = block
          /\ log' = [log EXCEPT ![w] = Append(@, entry)]
      BY <1>14, <2>4 DEF AgreeBlock
    <3>2. \A i \in signers : i \in Live /\ b \in BlocksVoted(i)
      BY <1>1, <2>1, SignersVoted
    <3>3. b \in BlocksVoted(w)
      BY <1>1, <2>1, <2>4 DEF CertInv, HeldIsVoted, NoBlock, Reject
    <3>4. CommitCertified'
      <4> SUFFICES ASSUME NEW v \in Live, NEW k \in DOMAIN log'[v]
                   PROVE  /\ WeightOf(log'[v][k].signers) >= Quorum
                          /\ \A i \in log'[v][k].signers :
                               i \in Live /\ log'[v][k].block \in BlocksVoted(i)'
                          /\ log'[v][k].block \in BlocksVoted(v)'
        BY DEF CommitCertified
      <4>1. log[v] \in Seq([block : Blocks, signers : SUBSET Witness])
            /\ log \in [Live -> Seq([block : Blocks, signers : SUBSET Witness])]
        BY DEF CertInv, TypeOK
      <4>2. CASE v = w /\ k = Len(log[w]) + 1
        <5>1. log'[v][k] = entry
          BY <1>1, <3>1, <4>1, <4>2
        <5> QED
          BY <1>1, <1>3, <2>4, <3>2, <3>3, <4>2, <5>1 DEF VotesGrow
      <4>3. CASE ~(v = w /\ k = Len(log[w]) + 1)
        <5>1. k \in DOMAIN log[v] /\ log'[v][k] = log[v][k]
          BY <1>1, <3>1, <4>1, <4>3
        <5> QED
          BY <1>3, <5>1 DEF VotesGrow, CertInv, CommitCertified
      <4> QED
        BY <4>2, <4>3
    <3> QED
      BY <1>2, <1>4, <1>5, <1>8, <1>9, <2>1, <3>1, <3>4 DEF CertInv, VotesTrue
  <2> QED
    BY <2>2, <2>3, <2>4
<1> QED
  BY <1>11, <1>12, <1>13, <1>14 DEF Process, agreed

\* The steps that change no call, no view, no held block, no vote and no commit
\* leave the certificates as they are, if they lose messages at most.
LEMMA QuietCert ==
  ASSUME CertInv, TypeOK', net' \in TrueNet,
         UNCHANGED <<todo, views, block, voted, log>>
  PROVE  CertInv'
<1>1. VotesGrow
  BY SameVotes
<1>2. Seq(TrueEnvelopes) \subseteq Seq(TrueEnvelopes')
  BY <1>1, StillTrue, SeqSubset
<1>3. net' \in TrueNet'
  BY <1>2 DEF TrueNet
<1>4. VotesTrue'
  BY <1>1, <1>3, KeptTrue DEF CertInv, VotesTrue
<1> QED
  BY <1>1, <1>4, StillHeld, OldCertificates DEF CertInv

\* A vote is true as soon as it is given.
LEMMA ValidBlockCert ==
  ASSUME CertInv, TypeOK', NEW w \in Live, NEW b \in Blocks, todo = << >>,
         ProcessValidBlock(w, b), net' \in TrueNet, views' = views, log' = log
  PROVE  CertInv'
<1>1. VotesGrow /\ (phase[w] = "BLOCK" => b \in BlocksVoted(w)')
  BY VoteGrows DEF CertInv
<1>2. Seq(TrueEnvelopes) \subseteq Seq(TrueEnvelopes')
  BY <1>1, StillTrue, SeqSubset
<1>3. net' \in TrueNet'
  BY <1>2 DEF TrueNet
<1>4. views' \in [Live -> TrueViews']
  BY <1>1, KeptTrue DEF CertInv
<1>5. CommitCertified'
  BY <1>1, OldCertificates DEF CertInv
<1>6. CASE phase[w] = "BLOCK"
  <2> DEFINE call == Call(w, w, w, VoteMsg(b))
  <2>1. block' = [block EXCEPT ![w] = b] /\ todo' = <<call>>
    BY <1>6 DEF ProcessValidBlock
  <2>2. call \in Calls
    <3>1. b \in Nat
      BY Constants DEF Blocks
    <3> QED
      BY <3>1, CallType, Constants
  <2>3. Honest(w, VoteMsg(b))'
    BY <1>1, <1>6 DEF Honest, VoteMsg, Body
  <2>4. call.of = w /\ call.body = VoteMsg(b)
    BY DEF Call
  <2> HIDE DEF call
  <2>5. call \in TrueCalls'
    BY <2>2, <2>3, <2>4 DEF TrueCalls
  <2>6. todo' \in Seq(TrueCalls')
    BY <2>1, <2>5
  <2>7. HeldIsVoted'
    BY <1>1, <1>6, <2>1 DEF HeldIsVoted, VotesGrow, CertInv, TypeOK
  <2> QED
    BY <1>3, <1>4, <1>5, <2>6, <2>7 DEF CertInv, VotesTrue
<1>7. CASE phase[w] # "BLOCK"
  <2>1. block' = block /\ todo' = todo
    BY <1>7 DEF ProcessValidBlock
  <2>2. HeldIsVoted'
    BY <1>1, <2>1, StillHeld DEF CertInv
  <2>3. todo' \in Seq(TrueCalls')
    BY <1>1, <2>1, KeptTrue DEF CertInv
  <2> QED
    BY <1>3, <1>4, <1>5, <2>2, <2>3 DEF CertInv, VotesTrue
<1> QED
  BY <1>6, <1>7

\* w announces a round.
LEMMA NextRoundCert ==
  ASSUME CertInv, TypeOK', NEW w \in Live, NEW c \in Rounds,
         NEW rest \in Seq(TrueCalls), NextRoundOf(w, c, rest),
         UNCHANGED <<net, views, voted, log>>
  PROVE  CertInv'
<1>1. VotesGrow
  BY SameVotes
<1>2. todo' \in Seq(TrueCalls') /\ HeldIsVoted'
  BY NextRoundOfTrue
<1> QED
  BY <1>1, <1>2, KeptTrue, OldCertificates DEF CertInv, VotesTrue

LEMMA TrueNetUpdate ==
  ASSUME NEW links \in TrueNet, NEW v \in Witness, NEW w \in Witness,
         NEW s \in Seq(TrueEnvelopes)
  PROVE  [links EXCEPT ![v] = [@ EXCEPT ![w] = s]] \in TrueNet
BY DEF TrueNet

LEMMA StepCert ==
  ASSUME CertInv, Next, ~Process
  PROVE  CertInv'
<1>0. TypeOK' /\ TypeOK /\ net \in TrueNet
  BY StepType DEF CertInv, VotesTrue
<1>1. CASE Tick
  BY <1>0, <1>1, QuietCert DEF Tick
<1>2. ASSUME NEW w \in Live, TimerFires(w)
      PROVE  CertInv'
  <2> DEFINE c == IF phase[w] = "ROUND_CHANGE" THEN InitRounds(rounds[w])
                                               ELSE NextRound(rounds[w])
  <2>1. rounds[w] \in Rounds /\ 0 \in Nat
    BY <1>0, <1>2 DEF TypeOK
  <2>2. c \in Rounds
    BY <2>1, RoundsType
  <2>3. NextRoundOf(w, c, << >>) /\ UNCHANGED <<net, views, voted, log>>
    BY <1>2 DEF TimerFires
  <2> HIDE DEF c
  <2>4. << >> \in Seq(TrueCalls)
    OBVIOUS
  <2> QED
    BY <1>0, <1>2, <2>2, <2>3, <2>4, NextRoundCert
<1>3. ASSUME NEW w \in Live, StartVerify(w) \/ StartCreate(w) \/ SuppressBlock(w)
      PROVE  CertInv'
  <2>1. UNCHANGED <<todo, views, block, voted, log, net>>
    BY <1>3 DEF StartVerify, StartCreate, SuppressBlock, consensusVars
  <2> QED
    BY <1>0, <2>1, QuietCert
<1>4. ASSUME NEW w \in Live, FinishCreate(w)
      PROVE  CertInv'
  <2>1. HasJob(w, "create", TRUE)
    BY <1>4 DEF FinishCreate
  <2>2. todo = << >> /\ Job(w).block \in Blocks
    BY <1>0, <1>4, <2>1, JobIsTyped
  <2>3. [of |-> w, body |-> BlockMsg(Job(w).block)] \in TrueEnvelopes
    BY <1>4, <2>2, Constants DEF TrueEnvelopes, Envelopes, Honest, BlockMsg, Body
  <2>4. net' \in TrueNet
    BY <1>0, <1>4, <2>3, TrueBroadcast, Constants DEF FinishCreate
  <2>5. /\ ProcessValidBlock(w, Job(w).block)
        /\ views' = views /\ log' = log
    BY <1>4 DEF FinishCreate
  <2> QED
    BY <1>0, <1>4, <2>2, <2>4, <2>5, ValidBlockCert
<1>5. ASSUME NEW w \in Live, FinishVerify(w)
      PROVE  CertInv'
  <2>1. HasJob(w, "verify", TRUE)
    BY <1>5 DEF FinishVerify
  <2>2. todo = << >> /\ Job(w).block \in Blocks
    BY <1>0, <1>5, <2>1, JobIsTyped
  <2>3. /\ ProcessValidBlock(w, Job(w).block)
        /\ views' = views /\ log' = log /\ net' = net
    BY <1>5 DEF FinishVerify
  <2> QED
    BY <1>0, <1>5, <2>2, <2>3, ValidBlockCert
<1>6. ASSUME NEW w \in Live, InvalidBlock(w)
      PROVE  CertInv'
  <2>1. CASE phase[w] = "BLOCK"
    <3> DEFINE call == Call(w, w, w, VoteMsg(Reject))
    <3>1. call \in Calls
      BY <1>6, CallType, Constants DEF Reject
    <3>2. call \in TrueCalls
      BY <3>1 DEF TrueCalls, Honest, Call, VoteMsg, Body
    <3>3. /\ NextRoundOf(w, NextRound(rounds[w]), <<call>>)
          /\ UNCHANGED <<net, views, voted, log>>
      BY <1>6, <2>1 DEF InvalidBlock
    <3> HIDE DEF call
    <3>4. <<call>> \in Seq(TrueCalls)
      BY <3>2
    <3>5. rounds[w] \in Rounds /\ 0 \in Nat
      BY <1>0, <1>6 DEF TypeOK
    <3>6. NextRound(rounds[w]) \in Rounds
      BY <3>5, RoundsType
    <3> QED
      BY <1>0, <1>6, <3>3, <3>4, <3>6, NextRoundCert
  <2>2. CASE phase[w] # "BLOCK"
    <3>1. UNCHANGED <<todo, views, block, voted, log, net>>
      BY <1>6, <2>2 DEF InvalidBlock
    <3> QED
      BY <1>0, <3>1, QuietCert
  <2> QED
    BY <2>1, <2>2
<1>7. ASSUME NEW w \in Live, FinishCommit(w)
      PROVE  CertInv'
  BY <1>0, <1>7, QuietCert DEF FinishCommit
<1>8. ASSUME NEW v \in Live, NEW w \in Live, ReceiveBlock(v, w)
      PROVE  CertInv'
  BY <1>0, <1>8, QuietCert DEF ReceiveBlock
<1>9. ASSUME NEW v \in Live, NEW w \in Live, net[v][w] # << >>
      PROVE  /\ Received(v, w) \in TrueEnvelopes
             /\ Take(v, w) => net' \in TrueNet
  <2>1. v \in Witness /\ w \in Witness /\ net[v][w] \in Seq(TrueEnvelopes)
    BY <1>0, <1>9, Constants DEF TrueNet
  <2>2. Received(v, w) \in TrueEnvelopes /\ Tail(net[v][w]) \in Seq(TrueEnvelopes)
    BY <1>9, <2>1 DEF Received
  <2>3. [net EXCEPT ![v] = [@ EXCEPT ![w] = Tail(net[v][w])]] \in TrueNet
    BY <1>0, <2>1, <2>2, TrueNetUpdate
  <2> QED
    BY <2>2, <2>3 DEF Take
<1>10. ASSUME NEW v \in Live, NEW w \in Live, DeliverWord(v, w)
       PROVE  CertInv'
  <2> DEFINE m == Received(v, w)
             own == Call(w, w, v, m.body)
             his == Call(w, v, m.of, m.body)
  <2>1. m \in TrueEnvelopes /\ net' \in TrueNet
    BY <1>9, <1>10 DEF DeliverWord
  <2>2. /\ m.body \in Bodies /\ m.of \in Witness /\ Honest(m.of, m.body)
    BY <1>10, <2>1 DEF DeliverWord, TrueEnvelopes, Envelopes, Bodies
  <2>3. his \in TrueCalls
    BY <1>10, <2>2, Constants DEF TrueCalls, Calls, Call
  <2>4. m.of = v => own \in TrueCalls
    BY <1>10, <2>2, Constants DEF TrueCalls, Calls, Call
  <2>5. /\ todo' = IF m.of = v THEN <<own, his>> ELSE <<his>>
        /\ UNCHANGED <<views, block, voted, log>>
    BY <1>10 DEF DeliverWord, consensusVars
  <2> HIDE DEF m, own, his
  <2>6. todo' \in Seq(TrueCalls)
    BY <2>3, <2>4, <2>5
  <2>7. VotesGrow
    BY <2>5, SameVotes
  <2>8. todo' \in Seq(TrueCalls')
    BY <2>6, <2>7, StillTrue, SeqSubset
  <2>9. Seq(TrueEnvelopes) \subseteq Seq(TrueEnvelopes')
    BY <2>7, StillTrue, SeqSubset
  <2>10. net' \in TrueNet'
    BY <2>1, <2>9 DEF TrueNet
  <2> QED
    BY <1>0, <2>5, <2>7, <2>8, <2>10, KeptTrue, StillHeld, OldCertificates
    DEF CertInv, VotesTrue
<1>11. ASSUME NEW v \in Live, NEW w \in Live, DeliverBlock(v, w)
       PROVE  CertInv'
  <2>1. net' \in TrueNet /\ UNCHANGED <<todo, views, block, voted, log>>
    BY <1>9, <1>11 DEF DeliverBlock, consensusVars
  <2> QED
    BY <1>0, <2>1, QuietCert
<1>12. ASSUME NEW w \in Live, NEW v \in Live, Disconnect(w, v)
       PROVE  CertInv'
  <2> DEFINE one == [net EXCEPT ![w] = [@ EXCEPT ![v] = << >>]]
  <2>1. w \in Witness /\ v \in Witness /\ << >> \in Seq(TrueEnvelopes)
    BY <1>12, Constants
  <2>2. one \in TrueNet
    BY <1>0, <2>1, TrueNetUpdate
  <2>3. [one EXCEPT ![v] = [@ EXCEPT ![w] = << >>]] \in TrueNet
    BY <2>1, <2>2, TrueNetUpdate
  <2>4. net' = [one EXCEPT ![v] = [@ EXCEPT ![w] = << >>]]
    BY <1>12 DEF Disconnect
  <2>5. UNCHANGED <<todo, views, block, voted, log>>
    BY <1>12 DEF Disconnect, consensusVars
  <2> QED
    BY <1>0, <2>3, <2>4, <2>5, QuietCert
<1>13. ASSUME NEW w \in Live, NEW v \in Live, Reconnect(w, v)
       PROVE  CertInv'
  BY <1>0, <1>13, QuietCert DEF Reconnect, consensusVars
<1>14. ASSUME NEW w \in Live, Crash(w)
       PROVE  CertInv'
  <2>1. VotesGrow /\ todo' = todo /\ log' = log
    BY <1>14, SameVotes DEF Crash
  <2>2. net' \in TrueNet
    BY <1>0, <1>14 DEF Crash, TrueNet
  <2>3. Seq(TrueEnvelopes) \subseteq Seq(TrueEnvelopes')
    BY <2>1, StillTrue, SeqSubset
  <2>4. net' \in TrueNet'
    BY <2>2, <2>3 DEF TrueNet
  <2>5. views' \in [Live -> TrueViews']
    <3>1. views \in [Live -> TrueViews'] /\ EmptyViews \in TrueViews'
      BY <2>1, KeptTrue, StillTrue, EmptyViewsTrue DEF CertInv
    <3> QED
      BY <1>14, <3>1 DEF Crash
  <2>6. HeldIsVoted'
    <3>1. block' = [block EXCEPT ![w] = NoBlock]
      BY <1>14 DEF Crash
    <3> QED
      BY <1>0, <2>1, <3>1 DEF HeldIsVoted, VotesGrow, CertInv, TypeOK
  <2> QED
    BY <1>0, <2>1, <2>4, <2>5, <2>6, KeptTrue, OldCertificates DEF CertInv, VotesTrue
<1> QED
  BY <1>1, <1>2, <1>3, <1>4, <1>5, <1>6, <1>7, <1>8, <1>10, <1>11, <1>12, <1>13, <1>14
  DEF Next, Work, Deliver, Fault

LEMMA InitCert == Init => CertInv
<1> SUFFICES ASSUME Init
             PROVE  CertInv
  OBVIOUS
<1>1. VotesTrue
  BY EmptyViewsTrue DEF Init, VotesTrue, TrueNet
<1>2. HeldIsVoted /\ CommitCertified
  BY DEF Init, HeldIsVoted, CommitCertified
<1> QED
  BY <1>1, <1>2, InitType DEF CertInv

LEMMA NextCert == CertInv /\ [Next]_vars => CertInv'
<1>1. ASSUME CertInv, Next
      PROVE  CertInv'
  BY <1>1, ProcessCert, StepCert
<1>2. ASSUME CertInv, UNCHANGED vars
      PROVE  CertInv'
  <2>1. TypeOK'
    BY <1>2, NextType DEF CertInv
  <2>2. net' \in TrueNet /\ UNCHANGED <<todo, views, block, voted, log>>
    BY <1>2 DEF vars, CertInv, VotesTrue
  <2> QED
    BY <1>2, <2>1, <2>2, QuietCert
<1> QED
  BY <1>1, <1>2

LEMMA AlwaysCertInv == Spec => []CertInv
BY InitCert, NextCert, PTL DEF Spec

\* Every block that is handed over to be committed carries the signatures of a
\* quorum of witnesses that voted for it, and its committer voted for it, in a
\* concilium of any size, stake and topology, after any losses and restarts.
THEOREM Certified == Spec => []CommitCertified
<1>1. CertInv => CommitCertified
  BY DEF CertInv
<1> QED
  BY <1>1, AlwaysCertInv, PTL

-----------------------------------------------------------------------------
(***************************************************************************)
(* Agreement and signatures.                                               *)
(***************************************************************************)
\* What is said in a concilium of one is agreed on.
LEMMA AloneAgrees ==
  ASSUME N = 1, NEW data, NEW v, data = [j \in Witness |-> v], v # NoData
  PROVE  Majority(data) = v
<1>1. Witness = {1} /\ WeightOf(Witness) \in Nat /\ WeightOf(Witness) >= Quorum
  BY AloneIsQuorum
<1>2. Holders(data, v) = Witness
  BY DEF Holders
<1>3. Beats(data, v, v)
  BY <1>1, <1>2 DEF Beats
<1>4. Wins(data, v)
  BY <1>1, <1>2, <1>3 DEF Wins
<1>5. {data[j] : j \in Witness} = {v}
  BY <1>1
<1>6. {u \in {data[j] : j \in Witness} : Wins(data, u)} = {v}
  BY <1>4, <1>5
<1> QED
  BY <1>6 DEF Majority

\* Agreement on a block comes with a quorum of signatures, whatever the views: the
\* two ways in which runConsensus and _getSignaturesForBlock read them agree, in a
\* concilium of one too, which takes its own word.
THEOREM AgreementIsSigned ==
  ASSUME NEW w \in Live, NEW vs \in ViewsType, NEW b,
         RunConsensus(w, vs) = VoteMsg(b)
  PROVE  WeightOf(Signers(vs, b)) >= Quorum
<1>0. VoteMsg(b) # NoData
  BY DEF VoteMsg, NoData, Body
<1>1. CASE N # 1
  <2>1. Majority(Columns(vs)) = VoteMsg(b)
    BY <1>1 DEF RunConsensus
  <2>2. WeightOf(Holders(Columns(vs), VoteMsg(b))) >= Quorum
    BY <1>0, <2>1, MajorityIsHeld
  <2>3. Holders(Columns(vs), VoteMsg(b)) = Signers(vs, b)
    BY DEF Holders, Signers
  <2> QED
    BY <2>2, <2>3
<1>2. CASE N = 1
  <2>1. Witness = {1} /\ WeightOf(Witness) >= Quorum
    BY <1>2, AloneIsQuorum
  <2>2. w = 1 /\ vs[1][1] = VoteMsg(b)
    BY <1>2, <2>1, Constants DEF RunConsensus
  <2>3. Column(vs, 1) = [j \in Witness |-> VoteMsg(b)]
    BY <2>1, <2>2 DEF Column
  <2>4. Columns(vs)[1] = VoteMsg(b)
    BY <1>0, <1>2, <2>1, <2>3, AloneAgrees DEF Columns
  <2>5. Signers(vs, b) = Witness
    BY <2>1, <2>4 DEF Signers
  <2> QED
    BY <2>1, <2>5
<1> QED
  BY <1>1, <1>2

-----------------------------------------------------------------------------
(***************************************************************************)
(* Forks.                                                                  *)
(***************************************************************************)
\* The definition of the concilium does not bring along less than a majority.
MajorityQuorum == ~IsPoS /\ ConfQuorum # 0 => 2 * ConfQuorum > N

\* Some witness has voted for both of any two blocks that are committed, by whomever and
\* whenever (_getSignaturesForBlock, getQuorum).
CommonVoter ==
  \A w, v \in Live : \A b \in Committed(w), c \in Committed(v) :
    \E i \in Live : {b, c} \subseteq BlocksVoted(i)

\* A witness votes for one block on a parent (_processBlockMessage does not look at it).
OneVotePerParent ==
  \A i \in Live : \A b, c \in BlocksVoted(i) : made[b].parent = made[c].parent => b = c

LEMMA CertifiedMeet ==
  ASSUME MajorityQuorum, CommitCertified
  PROVE  CommonVoter
<1> SUFFICES ASSUME NEW w \in Live, NEW v \in Live,
                    NEW k \in DOMAIN log[w], NEW l \in DOMAIN log[v]
             PROVE  \E i \in Live : {log[w][k].block, log[v][l].block} \subseteq BlocksVoted(i)
  BY DEF CommonVoter, Committed
<1> DEFINE S == log[w][k].signers
           T == log[v][l].signers
<1>1. /\ WeightOf(S) >= Quorum /\ \A i \in S : i \in Live /\ log[w][k].block \in BlocksVoted(i)
      /\ WeightOf(T) >= Quorum /\ \A i \in T : i \in Live /\ log[v][l].block \in BlocksVoted(i)
  BY DEF CommitCertified
<1> HIDE DEF S, T
<1>2. S \in SUBSET Witness /\ T \in SUBSET Witness
  BY <1>1, Constants
<1>3. S \cap T # {}
  BY <1>1, <1>2, QuorumsMeet DEF MajorityQuorum
<1> QED
  BY <1>1, <1>3

\* However many forks there are, for each two blocks that are committed some witness has
\* voted for both, after any losses, late votes and restarts, if quorums are majorities.
THEOREM ForksHaveCommonVoter ==
  ASSUME MajorityQuorum
  PROVE  Spec => []CommonVoter
<1>1. CommitCertified => CommonVoter
  BY CertifiedMeet
<1> QED
  BY <1>1, Certified, PTL

\* What is missing for the concilium never to fork is that no witness votes for two blocks
\* on one parent: BftConsensus lets it vote again when the round has failed.
THEOREM ForkOnlyByRevoting ==
  ASSUME MajorityQuorum
  PROVE  Spec /\ []OneVotePerParent => []NoFork
<1>1. CommonVoter /\ OneVotePerParent => NoFork
  BY DEF CommonVoter, OneVotePerParent, NoFork
<1> QED
  BY <1>1, ForksHaveCommonVoter, PTL

-----------------------------------------------------------------------------
(***************************************************************************)
(* The consensus implements Ballot: giving a vote is CastVote, handing a   *)
(* block over is CommitWith, and every other step changes neither.         *)
(***************************************************************************)
Votes == [w \in Live |-> BlocksVoted(w)]

LEMMA StutterPromise ==
  ASSUME voted' = voted, log' = log
  PROVE  UNCHANGED Promise!ballotVars
BY DEF Promise!ballotVars, BlocksVoted

LEMMA VotePromise ==
  ASSUME TypeOK, NEW w \in Live, NEW b \in Blocks, ProcessValidBlock(w, b), log' = log
  PROVE  [Promise!BallotNext]_(Promise!ballotVars)
<1>1. CASE phase[w] = "BLOCK"
  <2> DEFINE vote == [block |-> b, round |-> GetRound(rounds[w])]
  <2>1. voted' = [voted EXCEPT ![w] = @ \cup {vote}]
    BY <1>1 DEF ProcessValidBlock
  <2>2. vote.block = b
    OBVIOUS
  <2> HIDE DEF vote
  <2>3. /\ voted'[w] = voted[w] \cup {vote}
        /\ \A v \in Live : v # w => voted'[v] = voted[v]
    BY <2>1 DEF TypeOK
  <2>4. /\ BlocksVoted(w)' = BlocksVoted(w) \cup {b}
        /\ \A v \in Live : v # w => BlocksVoted(v)' = BlocksVoted(v)
    BY <2>2, <2>3 DEF BlocksVoted
  <2>5. Votes' = [Votes EXCEPT ![w] = @ \cup {b}]
    BY <2>4 DEF Votes
  <2>6. Promise!CastVote(w, b)
    BY <2>5 DEF Promise!CastVote, Votes
  <2> QED
    BY <2>6 DEF Promise!BallotNext
<1>2. CASE phase[w] # "BLOCK"
  BY <1>2, StutterPromise DEF ProcessValidBlock
<1> QED
  BY <1>1, <1>2

LEMMA CommitPromise ==
  ASSUME CertInv, Process
  PROVE  [Promise!BallotNext]_(Promise!ballotVars)
<1> DEFINE w == Frame.at
           agreed == RunConsensus(w, NewViews)
           b == agreed.value
           signers == Signers(NewViews, b)
<1>1. NewViews \in TrueViews /\ w \in Live
  BY TrueFrame DEF Process
<1>2. voted' = voted
  BY DEF Process
<1>3. CASE log' = log
  BY <1>2, <1>3, StutterPromise
<1>4. CASE log' # log
  <2>1. AgreeBlock(w, agreed)
    <3> HIDE DEF agreed
    <3>1. \/ Hear(w, agreed) \/ AgreeRound(w, agreed)
          \/ AgreeReject(w, agreed) \/ AgreeBlock(w, agreed)
      BY DEF Process, agreed
    <3> QED
      BY <1>4, <3>1 DEF Hear, AgreeRound, AgreeReject
  <2> HIDE DEF agreed
  <2>2. /\ b # Reject /\ block[w] = b /\ WeightOf(signers) >= Quorum
        /\ log' = [log EXCEPT ![w] = Append(@, [block |-> b, signers |-> signers])]
    BY <1>4, <2>1 DEF AgreeBlock
  <2>3. \A i \in signers : i \in Live /\ b \in BlocksVoted(i)
    BY <1>1, <2>2, SignersVoted
  <2>4. b \in BlocksVoted(w) /\ b \in Blocks
    BY <1>1, <2>2 DEF CertInv, TypeOK, HeldIsVoted, NoBlock, Reject
  <2>5. signers \in {S \in SUBSET Live : WeightOf(S) >= Quorum}
    BY <2>2, <2>3
  <2> HIDE DEF b, signers
  <2>6. Promise!CommitWith(w, b, signers)
    <3>1. Votes' = Votes
      BY <1>2 DEF Votes, BlocksVoted
    <3> QED
      BY <1>1, <2>2, <2>3, <2>4, <3>1 DEF Promise!CommitWith, Votes
  <2> QED
    BY <1>1, <2>4, <2>5, <2>6 DEF Promise!BallotNext
<1> QED
  BY <1>3, <1>4

LEMMA StepPromise ==
  ASSUME CertInv, [Next]_vars
  PROVE  [Promise!BallotNext]_(Promise!ballotVars)
<1>1. CASE Process
  BY <1>1, CommitPromise
<1>2. ASSUME NEW w \in Live, FinishCreate(w) \/ FinishVerify(w)
      PROVE  [Promise!BallotNext]_(Promise!ballotVars)
  <2>1. HasJob(w, "create", TRUE) \/ HasJob(w, "verify", TRUE)
    BY <1>2 DEF FinishCreate, FinishVerify
  <2>2. Job(w).block \in Blocks
    BY <1>2, <2>1, JobIsTyped DEF CertInv
  <2>3. ProcessValidBlock(w, Job(w).block) /\ log' = log
    BY <1>2 DEF FinishCreate, FinishVerify
  <2> QED
    BY <1>2, <2>2, <2>3, VotePromise DEF CertInv
<1>3. CASE UNCHANGED vars
  BY <1>3, StutterPromise DEF vars
<1>4. CASE voted' = voted /\ log' = log
  BY <1>4, StutterPromise
<1>5. ASSUME NEW w \in Live, Work(w)
      PROVE  FinishCreate(w) \/ FinishVerify(w) \/ (voted' = voted /\ log' = log)
  BY <1>5 DEF Work, StartVerify, InvalidBlock, StartCreate, SuppressBlock, FinishCommit
<1>6. ASSUME NEW w \in Live, TimerFires(w) \/ Fault(w)
      PROVE  voted' = voted /\ log' = log
  BY <1>6 DEF TimerFires, Fault, Crash, Disconnect, Reconnect
<1>7. ASSUME NEW v \in Live, NEW w \in Live, Deliver(v, w)
      PROVE  voted' = voted /\ log' = log
  BY <1>7 DEF Deliver, DeliverWord, DeliverBlock, ReceiveBlock
<1>8. CASE Tick
  BY <1>8, StutterPromise DEF Tick
<1> QED
  BY <1>1, <1>2, <1>3, <1>4, <1>5, <1>6, <1>7, <1>8 DEF Next

\* Seen as votes given and blocks committed, everything BftConsensus and Witness do
\* is what Ballot allows: no vote is taken back and no block is committed without a
\* quorum that voted for it.
THEOREM PromiseKept == Spec => KeepsPromise
<1>1. Init => Promise!BallotInit
  BY DEF Init, Promise!BallotInit, BlocksVoted
<1>2. CertInv /\ [Next]_vars => [Promise!BallotNext]_(Promise!ballotVars)
  BY StepPromise
<1> QED
  BY <1>1, <1>2, AlwaysCertInv, PTL DEF Spec, KeepsPromise, Promise!BallotSpec

-----------------------------------------------------------------------------
(***************************************************************************)
(* A witness hands a block over once, in a concilium of any size, stake    *)
(* and topology in which two quorums meet.  A second agreement on a block  *)
(* would need, like the first, a quorum of votes that were heard of from a *)
(* quorum each; two such quorums have a word in common, and every word     *)
(* comes to a witness once.                                                *)
(***************************************************************************)
\* x is in the sequence s, and once at most.
In(s, x) == \E k \in DOMAIN s : s[k] = x
Once(s, x) == \A k, l \in DOMAIN s : s[k] = x /\ s[l] = x => k = l

-----------------------------------------------------------------------------
(***************************************************************************)
(* A block reaches a witness once: nothing is known of it before it has    *)
(* been made, then its maker has it, then it is on a link, then the        *)
(* witness verifies it, then the witness has voted for it.                 *)
(***************************************************************************)
Lists(s, b) == \E k \in DOMAIN s : s[k].block = b
ListsOnce(s, b) == \A k, l \in DOMAIN s : s[k].block = b /\ s[l].block = b => k = l
ListsNew(s, b) == \E k \in DOMAIN s : s[k].block = b /\ s[k].kind = "create"

HasJobFor(v, b) == Lists(jobs[v], b)
OneJobFor(v, b) == ListsOnce(jobs[v], b)
Creates(v, b) == ListsNew(jobs[v], b)

Carries(s, b) == \E k \in DOMAIN s : s[k].body = BlockMsg(b)
CarriesOnce(s, b) ==
  \A k, l \in DOMAIN s : s[k].body = BlockMsg(b) /\ s[l].body = BlockMsg(b) => k = l

NotOnTheWay(v, b) == \A u \in Witness : ~Carries(net[u][v], b)
OnTheWayOnce(v, b) ==
  \A u \in Witness : /\ CarriesOnce(net[u][v], b)
                     /\ \A x \in Witness : Carries(net[u][v], b) /\ Carries(net[x][v], b) => u = x

Arrives(v, b) ==
  /\ b \in BlocksVoted(v) => ~HasJobFor(v, b) /\ NotOnTheWay(v, b)
  /\ HasJobFor(v, b) => OneJobFor(v, b) /\ NotOnTheWay(v, b)
  /\ OnTheWayOnce(v, b)
  /\ Creates(v, b) =>
       \A x \in Live : /\ b \notin BlocksVoted(x) /\ NotOnTheWay(x, b)
                       /\ HasJobFor(x, b) => x = v
  /\ b > Len(made) => b \notin BlocksVoted(v) /\ ~HasJobFor(v, b) /\ NotOnTheWay(v, b)

BlocksArriveOnce == \A v \in Live : \A b \in Blocks : Arrives(v, b)

-----------------------------------------------------------------------------
(***************************************************************************)
(* The word of j that i has voted for b reaches w once: i says it to j, j  *)
(* relays it, it is on the link to w, w is about to process it, and then   *)
(* it is in the views of w.                                                *)
(***************************************************************************)
Word(b, i) == [of |-> i, body |-> VoteMsg(b)]
Vote(w, j, i, b) == Call(w, j, i, VoteMsg(b))

Heard(j, i, b) == j # i /\ In(net[i][j], Word(b, i))
Says(j, i, b) == In(todo, Vote(j, j, i, b))
Sent(w, j, i, b) == w # j /\ In(net[j][w], Word(b, i))
Due(w, j, i, b) == w # j /\ In(todo, Vote(w, j, i, b))
Seen(w, j, i, b) == views[w][j][i] = VoteMsg(b)

Past(w, j, i, b) ==
  ~Sent(w, j, i, b) /\ ~Due(w, j, i, b) /\ ~Seen(w, j, i, b)

OneWay(w, j, i, b) ==
  /\ j # i /\ Says(i, i, b) => ~Heard(j, i, b) /\ ~Says(j, i, b) /\ Past(w, j, i, b)
  /\ Heard(j, i, b) => ~Says(j, i, b) /\ Past(w, j, i, b)
  /\ Says(j, i, b) => Past(w, j, i, b)
  /\ Sent(w, j, i, b) => ~Due(w, j, i, b) /\ ~Seen(w, j, i, b)
  /\ Due(w, j, i, b) => ~Seen(w, j, i, b)

\* No link and no handler has a word twice, and no witness is linked to itself.
WordsAreOnce ==
  /\ \A w, j, i \in Witness : \A b \in Blocks : /\ Once(todo, Vote(w, j, i, b))
                                               /\ Once(net[j][w], Word(b, i))
  /\ \A w \in Witness : net[w][w] = << >>

WordsComeOnce ==
  /\ WordsAreOnce
  /\ \A w \in Live : \A j, i \in Witness : \A b \in Blocks : OneWay(w, j, i, b)

\* That word will not come to w again.
Gone(w, j, i, b) ==
  /\ b \in BlocksVoted(i)
  /\ j # i => ~Says(i, i, b)
  /\ ~Heard(j, i, b) /\ ~Says(j, i, b) /\ Past(w, j, i, b)

\* A quorum of votes for b that w heard of from a quorum each will not come again.
QuorumGone(w, b) ==
  \E C \in SUBSET Live : /\ WeightOf(C) >= Quorum
                         /\ \A i \in C : \E R \in SUBSET Witness :
                              /\ WeightOf(R) >= Quorum
                              /\ \A j \in R : Gone(w, j, i, b)

CommittedForGood ==
  \A w \in Live : \A b \in Committed(w) : block[w] = b => QuorumGone(w, b)

OnceInv == CertInv /\ BlocksArriveOnce /\ WordsComeOnce /\ CommittedForGood /\ CommitOnce
-----------------------------------------------------------------------------
(***************************************************************************)
(* Sequences.                                                              *)
(***************************************************************************)
LEMMA InNone == \A x : ~In(<< >>, x) /\ Once(<< >>, x)
BY DEF In, Once

LEMMA InTail ==
  ASSUME NEW X, NEW s \in Seq(X), s # << >>, NEW x
  PROVE  /\ In(Tail(s), x) => In(s, x)
         /\ Once(s, x) => Once(Tail(s), x)
         /\ Once(s, x) /\ Head(s) = x => ~In(Tail(s), x)
<1>1. /\ Len(s) \in Nat \ {0} /\ DOMAIN s = 1..Len(s) /\ Head(s) = s[1]
      /\ DOMAIN Tail(s) = 1..(Len(s) - 1)
      /\ \A k \in 1..(Len(s) - 1) : k + 1 \in 1..Len(s) /\ Tail(s)[k] = s[k + 1]
  OBVIOUS
<1>2. 1 \in 1..Len(s) /\ \A k \in 1..(Len(s) - 1) : k + 1 # 1
  BY <1>1
<1> QED
  BY <1>1, <1>2 DEF In, Once

LEMMA InAppend ==
  ASSUME NEW X, NEW s \in Seq(X), NEW y, NEW x
  PROVE  /\ In(Append(s, y), x) <=> In(s, x) \/ y = x
         /\ Once(s, x) /\ (y = x => ~In(s, x)) => Once(Append(s, y), x)
<1>1. /\ Len(s) \in Nat /\ DOMAIN s = 1..Len(s)
      /\ DOMAIN Append(s, y) = 1..(Len(s) + 1)
      /\ \A k \in 1..Len(s) : Append(s, y)[k] = s[k]
      /\ Append(s, y)[Len(s) + 1] = y
  OBVIOUS
<1>2. \A k \in 1..(Len(s) + 1) : k \in 1..Len(s) \/ k = Len(s) + 1
  BY <1>1
<1>3. \A k \in 1..Len(s) : k \in 1..(Len(s) + 1)
  BY <1>1
<1>4. Len(s) + 1 \in 1..(Len(s) + 1)
  BY <1>1
<1> QED
  BY <1>1, <1>2, <1>3, <1>4 DEF In, Once

LEMMA InCons ==
  ASSUME NEW X, NEW s \in Seq(X), NEW y, NEW x
  PROVE  /\ In(<<y>> \o s, x) <=> In(s, x) \/ y = x
         /\ Once(s, x) /\ (y = x => ~In(s, x)) => Once(<<y>> \o s, x)
<1> DEFINE t == <<y>> \o s
<1>1. /\ Len(s) \in Nat /\ DOMAIN s = 1..Len(s)
      /\ DOMAIN t = 1..(Len(s) + 1)
      /\ t[1] = y
      /\ \A k \in 1..Len(s) : t[k + 1] = s[k]
  OBVIOUS
<1> HIDE DEF t
<1>2. \A k \in 1..(Len(s) + 1) : k = 1 \/ (k - 1 \in 1..Len(s) /\ (k - 1) + 1 = k)
  BY <1>1
<1>3. \A k \in 1..Len(s) : k + 1 \in 1..(Len(s) + 1)
  BY <1>1
<1>4. 1 \in 1..(Len(s) + 1)
  BY <1>1
<1>5. \A k \in 1..(Len(s) + 1) : k # 1 => t[k] = s[k - 1]
  BY <1>1, <1>2
<1>6. In(t, x) <=> In(s, x) \/ y = x
  <2>1. ASSUME NEW k \in 1..(Len(s) + 1), t[k] = x, y # x
        PROVE  In(s, x)
    <3>1. k # 1 /\ k - 1 \in 1..Len(s)
      BY <1>1, <1>2, <2>1
    <3> QED
      BY <1>1, <1>5, <2>1, <3>1 DEF In
  <2>2. In(s, x) => In(t, x)
    BY <1>1, <1>3 DEF In
  <2>3. y = x => In(t, x)
    BY <1>1, <1>4 DEF In
  <2> QED
    BY <1>1, <2>1, <2>2, <2>3 DEF In
<1>7. ASSUME Once(s, x), y = x => ~In(s, x), NEW k \in 1..(Len(s) + 1), NEW l \in 1..(Len(s) + 1),
             t[k] = x, t[l] = x
      PROVE  k = l
  <2>1. CASE y = x
    <3>1. \A m \in 1..Len(s) : s[m] # x
      BY <1>1, <1>7, <2>1 DEF In
    <3> QED
      BY <1>2, <1>5, <1>7, <3>1
  <2>2. CASE y # x
    <3>1. k # 1 /\ l # 1
      BY <1>1, <1>7, <2>2
    <3>2. k - 1 = l - 1
      BY <1>1, <1>2, <1>5, <1>7, <3>1 DEF Once
    <3> QED
      BY <1>1, <1>7, <3>2
  <2> QED
    BY <2>1, <2>2
<1> QED
  BY <1>1, <1>6, <1>7 DEF Once, t

\* The same of the blocks that are on a link.
LEMMA CarriesNone == \A b : ~Carries(<< >>, b) /\ CarriesOnce(<< >>, b)
BY DEF Carries, CarriesOnce

LEMMA CarriesTail ==
  ASSUME NEW X, NEW s \in Seq(X), s # << >>, NEW b
  PROVE  /\ Carries(Tail(s), b) => Carries(s, b)
         /\ CarriesOnce(s, b) => CarriesOnce(Tail(s), b)
         /\ CarriesOnce(s, b) /\ Head(s).body = BlockMsg(b) => ~Carries(Tail(s), b)
         /\ Head(s).body = BlockMsg(b) => Carries(s, b)
<1>1. /\ Len(s) \in Nat \ {0} /\ DOMAIN s = 1..Len(s) /\ Head(s) = s[1]
      /\ DOMAIN Tail(s) = 1..(Len(s) - 1)
      /\ \A k \in 1..(Len(s) - 1) : k + 1 \in 1..Len(s) /\ Tail(s)[k] = s[k + 1]
  OBVIOUS
<1>2. 1 \in 1..Len(s) /\ \A k \in 1..(Len(s) - 1) : k + 1 # 1
  BY <1>1
<1> QED
  BY <1>1, <1>2 DEF Carries, CarriesOnce

LEMMA CarriesAppend ==
  ASSUME NEW X, NEW s \in Seq(X), NEW y, NEW b
  PROVE  /\ Carries(Append(s, y), b) <=> Carries(s, b) \/ y.body = BlockMsg(b)
         /\ CarriesOnce(s, b) /\ (y.body = BlockMsg(b) => ~Carries(s, b))
              => CarriesOnce(Append(s, y), b)
<1>1. /\ Len(s) \in Nat /\ DOMAIN s = 1..Len(s)
      /\ DOMAIN Append(s, y) = 1..(Len(s) + 1)
      /\ \A k \in 1..Len(s) : Append(s, y)[k] = s[k]
      /\ Append(s, y)[Len(s) + 1] = y
  OBVIOUS
<1>2. \A k \in 1..(Len(s) + 1) : k \in 1..Len(s) \/ k = Len(s) + 1
  BY <1>1
<1>3. \A k \in 1..Len(s) : k \in 1..(Len(s) + 1)
  BY <1>1
<1>4. Len(s) + 1 \in 1..(Len(s) + 1)
  BY <1>1
<1> QED
  BY <1>1, <1>2, <1>3, <1>4 DEF Carries, CarriesOnce


-----------------------------------------------------------------------------
(***************************************************************************)
(* What a step may do to the words: each place a word is in is one it was  *)
(* in before, or the next one on its way, and then it has left the last.   *)
(***************************************************************************)
Moves(w, j, i, b) ==
  /\ Heard(j, i, b)' => Heard(j, i, b) \/ (Says(i, i, b) /\ ~Says(i, i, b)')
  /\ Says(j, i, b)' => \/ Says(j, i, b)
                       \/ Heard(j, i, b) /\ ~Heard(j, i, b)'
                       \/ j = i /\ b \notin BlocksVoted(i)
  /\ Sent(w, j, i, b)' => Sent(w, j, i, b) \/ (Says(j, i, b) /\ ~Says(j, i, b)')
  /\ Due(w, j, i, b)' => Due(w, j, i, b) \/ (Sent(w, j, i, b) /\ ~Sent(w, j, i, b)')
  /\ Seen(w, j, i, b)' => \/ Seen(w, j, i, b)
                          \/ w = j /\ Says(j, i, b) /\ ~Says(j, i, b)'
                          \/ Due(w, j, i, b) /\ ~Due(w, j, i, b)'

WordsMove == \A w \in Live : \A j, i \in Witness : \A b \in Blocks : Moves(w, j, i, b)

\* A word that is anywhere is a vote that was given.
LEMMA WordIsVote ==
  ASSUME CertInv, NEW w \in Live, NEW j \in Witness, NEW i \in Witness, NEW b \in Blocks
  PROVE  /\ Heard(j, i, b) => b \in BlocksVoted(i)
         /\ Says(j, i, b) => b \in BlocksVoted(i)
         /\ Sent(w, j, i, b) => b \in BlocksVoted(i)
         /\ Due(w, j, i, b) => b \in BlocksVoted(i)
         /\ Seen(w, j, i, b) => b \in BlocksVoted(i)
<1>1. b # Reject /\ VoteMsg(b).state = "VOTE_BLOCK" /\ VoteMsg(b).value = b
  BY Constants DEF Blocks, Reject, VoteMsg, Body
<1>2. Honest(i, VoteMsg(b)) => b \in BlocksVoted(i)
  BY <1>1 DEF Honest
<1>3. todo \in Seq(TrueCalls) /\ net \in TrueNet /\ views \in [Live -> TrueViews]
  BY DEF CertInv, VotesTrue
<1>4. ASSUME NEW x, NEW y, In(todo, Vote(x, y, i, b))
      PROVE  b \in BlocksVoted(i)
  <2>1. Vote(x, y, i, b) \in TrueCalls
    BY <1>3, <1>4 DEF In
  <2> QED
    BY <1>2, <2>1 DEF TrueCalls, Vote, Call
<1>5. ASSUME NEW x \in Witness, NEW y \in Witness, In(net[x][y], Word(b, i))
      PROVE  b \in BlocksVoted(i)
  <2>1. net[x][y] \in Seq(TrueEnvelopes)
    BY <1>3 DEF TrueNet
  <2>2. Word(b, i) \in TrueEnvelopes
    BY <1>5, <2>1 DEF In
  <2> QED
    BY <1>2, <2>2 DEF TrueEnvelopes, Word
<1>6. Seen(w, j, i, b) => b \in BlocksVoted(i)
  BY <1>2, <1>3 DEF Seen, TrueViews
<1>7. w \in Witness
  BY Constants
<1> QED
  BY <1>4, <1>5, <1>6, <1>7 DEF Heard, Says, Sent, Due

\* So a word that comes once goes on coming once, and one that is gone stays gone.
LEMMA WordMoves ==
  ASSUME CertInv, NEW w \in Live, NEW j \in Witness, NEW i \in Witness, NEW b \in Blocks,
         OneWay(w, j, i, b), Moves(w, j, i, b), Moves(w, i, i, b)
  PROVE  OneWay(w, j, i, b)'
<1>1. /\ Heard(j, i, b) => b \in BlocksVoted(i)
      /\ Says(j, i, b) => b \in BlocksVoted(i)
      /\ Sent(w, j, i, b) => b \in BlocksVoted(i)
      /\ Due(w, j, i, b) => b \in BlocksVoted(i)
      /\ Seen(w, j, i, b) => b \in BlocksVoted(i)
      /\ Says(i, i, b) => b \in BlocksVoted(i)
  BY WordIsVote
<1>2. ~Heard(i, i, b) /\ (Heard(j, i, b)' => j # i)
  BY DEF Heard
<1>3. (Sent(w, j, i, b)' => w # j) /\ (Due(w, j, i, b)' => w # j) /\ (Due(w, j, i, b) => w # j)
  BY DEF Sent, Due
<1>4. j # i /\ Says(i, i, b)' => ~Heard(j, i, b)' /\ ~Says(j, i, b)' /\ Past(w, j, i, b)'
  BY <1>1, <1>2 DEF OneWay, Moves, Past
<1>5. Heard(j, i, b)' => ~Says(j, i, b)' /\ Past(w, j, i, b)'
  BY <1>1, <1>2 DEF OneWay, Moves, Past
<1>6. Says(j, i, b)' => Past(w, j, i, b)'
  BY <1>1, <1>2 DEF OneWay, Moves, Past
<1>7. Sent(w, j, i, b)' => ~Due(w, j, i, b)' /\ ~Seen(w, j, i, b)'
  BY <1>1, <1>3 DEF OneWay, Moves, Past
<1>8. Due(w, j, i, b)' => ~Seen(w, j, i, b)'
  BY <1>1, <1>3 DEF OneWay, Moves, Past
<1> QED
  BY <1>4, <1>5, <1>6, <1>7, <1>8 DEF OneWay

LEMMA GoneStays ==
  ASSUME NEW w \in Live, NEW j \in Witness, NEW i \in Live, NEW b \in Blocks,
         VotesGrow, Moves(w, j, i, b), Moves(w, i, i, b), Gone(w, j, i, b)
  PROVE  Gone(w, j, i, b)'
<1>1. b \in BlocksVoted(i)'
  BY DEF Gone, VotesGrow
<1>2. ~Heard(i, i, b) /\ (Heard(j, i, b)' => j # i)
  BY DEF Heard
<1> QED
  BY <1>1, <1>2 DEF Gone, Moves, Past

-----------------------------------------------------------------------------
(***************************************************************************)
(* Steps that let no word in, or no block.                                 *)
(***************************************************************************)
\* The calls s have the votes that todo has, at most.
FewerVotes(s) ==
  \A w, j, i \in Witness : \A b \in Blocks :
    /\ In(s, Vote(w, j, i, b)) => In(todo, Vote(w, j, i, b))
    /\ Once(todo, Vote(w, j, i, b)) => Once(s, Vote(w, j, i, b))

FewerWords ==
  /\ \A w, j, i \in Witness : \A b \in Blocks :
       /\ In(net'[j][w], Word(b, i)) => In(net[j][w], Word(b, i))
       /\ Once(net[j][w], Word(b, i)) => Once(net'[j][w], Word(b, i))
  /\ \A w \in Witness : net[w][w] = << >> => net'[w][w] = << >>

FewerBlocks ==
  \A u, v \in Witness : \A b \in Blocks :
    /\ Carries(net'[u][v], b) => Carries(net[u][v], b)
    /\ CarriesOnce(net[u][v], b) => CarriesOnce(net'[u][v], b)

FewerSeen ==
  \A w \in Live : \A j, i \in Witness : \A b \in Blocks : Seen(w, j, i, b)' => Seen(w, j, i, b)

LEMMA QuietWords ==
  ASSUME WordsAreOnce, FewerVotes(todo'), FewerWords, FewerSeen
  PROVE  WordsMove /\ WordsAreOnce'
<1>1. WordsAreOnce'
  BY DEF WordsAreOnce, FewerVotes, FewerWords
<1>2. ASSUME NEW w \in Live, NEW j \in Witness, NEW i \in Witness, NEW b \in Blocks
      PROVE  Moves(w, j, i, b)
  <2>1. w \in Witness
    BY Constants
  <2>2. Heard(j, i, b)' => Heard(j, i, b)
    BY DEF Heard, FewerWords
  <2>3. Says(j, i, b)' => Says(j, i, b)
    BY DEF Says, FewerVotes
  <2>4. Sent(w, j, i, b)' => Sent(w, j, i, b)
    BY <2>1 DEF Sent, FewerWords
  <2>5. Due(w, j, i, b)' => Due(w, j, i, b)
    BY <2>1 DEF Due, FewerVotes
  <2>6. Seen(w, j, i, b)' => Seen(w, j, i, b)
    BY DEF FewerSeen
  <2> QED
    BY <2>2, <2>3, <2>4, <2>5, <2>6 DEF Moves
<1> QED
  BY <1>1, <1>2 DEF WordsMove

\* A link that is the same, cut, or read from.
Shortened(s, t) == t = s \/ t = << >> \/ (s # << >> /\ t = Tail(s))

LEMMA ShorterLink ==
  ASSUME NEW X, NEW s \in Seq(X), NEW t, Shortened(s, t)
  PROVE  /\ \A x : (In(t, x) => In(s, x)) /\ (Once(s, x) => Once(t, x))
         /\ \A b : /\ Carries(t, b) => Carries(s, b)
                   /\ CarriesOnce(s, b) => CarriesOnce(t, b)
<1>1. CASE t = s
  BY <1>1
<1>2. CASE t = << >>
  BY <1>2, InNone, CarriesNone
<1>3. CASE s # << >> /\ t = Tail(s)
  BY <1>3, InTail, CarriesTail
<1> QED
  BY <1>1, <1>2, <1>3 DEF Shortened

LEMMA ShorterLinks ==
  ASSUME TypeOK, \A u, v \in Witness : Shortened(net[u][v], net'[u][v])
  PROVE  FewerWords /\ FewerBlocks
<1>1. ASSUME NEW u \in Witness, NEW v \in Witness
      PROVE  /\ \A x : /\ In(net'[u][v], x) => In(net[u][v], x)
                       /\ Once(net[u][v], x) => Once(net'[u][v], x)
             /\ \A b : /\ Carries(net'[u][v], b) => Carries(net[u][v], b)
                       /\ CarriesOnce(net[u][v], b) => CarriesOnce(net'[u][v], b)
             /\ net[u][v] = << >> => net'[u][v] = << >>
  <2>1. net[u][v] \in Seq(Envelopes) /\ Shortened(net[u][v], net'[u][v])
    BY <1>1 DEF TypeOK
  <2>2. net[u][v] = << >> => net'[u][v] = << >>
    BY <2>1 DEF Shortened
  <2> QED
    BY <2>1, <2>2, ShorterLink
<1> QED
  BY <1>1 DEF FewerWords, FewerBlocks

\* What each link has after a broadcast.
LEMMA BroadcastLinks ==
  ASSUME TypeOK, NEW w \in Live, NEW of, NEW body, net' = Broadcast(w, of, body)
  PROVE  \A u, v \in Witness :
           net'[u][v] = IF u = w /\ v # w /\ Connected(w, v)
                          THEN Append(net[u][v], [of |-> of, body |-> body])
                          ELSE net[u][v]
<1>1. net \in [Witness -> [Witness -> Seq(Envelopes)]] /\ w \in Witness
  BY Constants DEF TypeOK
<1>2. ~Connected(w, w)
  <2>1. up \subseteq Links
    BY DEF TypeOK
  <2>2. {w} \notin Links
    BY BftAssumption DEF BftAssumption
  <2>3. {w, w} = {w}
    OBVIOUS
  <2> QED
    BY <2>1, <2>2, <2>3 DEF Connected
<1>3. \A u, v \in Witness :
        net'[u][v] = IF u = w /\ Connected(w, v)
                       THEN Append(net[u][v], [of |-> of, body |-> body])
                       ELSE net[u][v]
  BY <1>1 DEF Broadcast
<1> QED
  BY <1>2, <1>3

\* A broadcast of anything else brings no word, and one of a word no block.
LEMMA BroadcastOf ==
  ASSUME TypeOK, NEW w \in Live, NEW of, NEW body, net' = Broadcast(w, of, body)
  PROVE  /\ body.state # "VOTE_BLOCK" => FewerWords
         /\ body.state # "BLOCK" => FewerBlocks
<1> DEFINE e == [of |-> of, body |-> body]
<1>1. \A u, v \in Witness :
        net'[u][v] = IF u = w /\ v # w /\ Connected(w, v) THEN Append(net[u][v], e) ELSE net[u][v]
  BY BroadcastLinks
<1>2. /\ \A b, i : body.state # "VOTE_BLOCK" => e # Word(b, i)
      /\ \A b : body.state # "BLOCK" => e.body # BlockMsg(b)
  BY DEF Word, VoteMsg, BlockMsg, Body
<1> HIDE DEF e
<1>3. \A u, v \in Witness : net[u][v] \in Seq(Envelopes)
  BY DEF TypeOK
<1>4. ASSUME body.state # "VOTE_BLOCK"
      PROVE  FewerWords
  <2>1. ASSUME NEW j \in Witness, NEW u \in Witness, NEW i \in Witness, NEW b \in Blocks
        PROVE  /\ In(net'[j][u], Word(b, i)) => In(net[j][u], Word(b, i))
               /\ Once(net[j][u], Word(b, i)) => Once(net'[j][u], Word(b, i))
    <3>1. CASE net'[j][u] = net[j][u]
      BY <3>1
    <3>2. CASE net'[j][u] = Append(net[j][u], e)
      <4>1. e # Word(b, i) /\ net[j][u] \in Seq(Envelopes)
        BY <1>2, <1>3, <1>4
      <4> QED
        BY <3>2, <4>1, InAppend
    <3> QED
      BY <1>1, <3>1, <3>2
  <2>2. \A u \in Witness : net'[u][u] = net[u][u]
    BY <1>1
  <2> QED
    BY <2>1, <2>2 DEF FewerWords
<1>5. ASSUME body.state # "BLOCK"
      PROVE  FewerBlocks
  <2>1. ASSUME NEW u \in Witness, NEW v \in Witness, NEW b \in Blocks
        PROVE  /\ Carries(net'[u][v], b) => Carries(net[u][v], b)
               /\ CarriesOnce(net[u][v], b) => CarriesOnce(net'[u][v], b)
    <3>1. CASE net'[u][v] = net[u][v]
      BY <3>1
    <3>2. CASE net'[u][v] = Append(net[u][v], e)
      <4>1. e.body # BlockMsg(b) /\ net[u][v] \in Seq(Envelopes)
        BY <1>2, <1>3, <1>5
      <4> QED
        BY <3>2, <4>1, CarriesAppend
    <3> QED
      BY <1>1, <3>1, <3>2
  <2> QED
    BY <2>1 DEF FewerBlocks
<1> QED
  BY <1>4, <1>5

\* Announcing a round, or voting to reject, is no word about a block.
LEMMA RoundIsNoVote ==
  ASSUME NEW s \in Seq(Calls), FewerVotes(s), NEW c \in Calls,
         c.body.state = "ROUND_CHANGE" \/ c.body.value = Reject
  PROVE  FewerVotes(<<c>> \o s)
<1>1. \A w, j, i \in Witness : \A b \in Blocks : Vote(w, j, i, b) # c
  <2>1. \A b \in Blocks : b # Reject
    BY Constants DEF Blocks, Reject
  <2> QED
    BY <2>1 DEF Vote, Call, VoteMsg, Body
<1>2. \A w, j, i \in Witness : \A b \in Blocks :
        /\ In(<<c>> \o s, Vote(w, j, i, b)) => In(s, Vote(w, j, i, b))
        /\ Once(s, Vote(w, j, i, b)) => Once(<<c>> \o s, Vote(w, j, i, b))
  BY <1>1, InCons
<1> QED
  BY <1>2 DEF FewerVotes

LEMMA NoneIsFewer == FewerVotes(<< >>) /\ FewerVotes(todo)
BY InNone DEF FewerVotes

-----------------------------------------------------------------------------
(***************************************************************************)
(* The steps that move words.                                              *)
(***************************************************************************)
\* What is in the views that the running call leaves was there, or is what it says.
LEMMA NewlySeen ==
  ASSUME TypeOK, Running, NEW j \in Witness, NEW i \in Witness, NEW b \in Blocks,
         NewViews[j][i] = VoteMsg(b)
  PROVE  Seen(Frame.at, j, i, b) \/ Frame = Vote(Frame.at, j, i, b)
<1>1. Frame \in Calls
  BY NewViewsType
<1>2. Frame.at \in Live /\ Frame.from \in Witness /\ Frame.of \in Witness
  BY <1>1 DEF Calls
<1>3. views[Frame.at] \in ViewsType
  BY <1>2 DEF TypeOK
<1>4. CASE j = Frame.from /\ i = Frame.of
  <2>1. NewViews[j][i] = Frame.body
    BY <1>2, <1>3, <1>4 DEF NewViews, ViewsType
  <2> QED
    BY <1>1, <1>4, <2>1 DEF Calls, Vote, Call
<1>5. CASE ~(j = Frame.from /\ i = Frame.of)
  <2>1. NewViews[j][i] = views[Frame.at][j][i]
    BY <1>2, <1>3, <1>5 DEF NewViews, ViewsType
  <2> QED
    BY <2>1 DEF Seen
<1> QED
  BY <1>4, <1>5

\* No vote is taken twice from the calls that are left.
LEMMA FrameLeaves ==
  ASSUME TypeOK, WordsAreOnce, Running
  PROVE  /\ FewerVotes(Tail(todo))
         /\ \A w, j, i \in Witness : \A b \in Blocks :
              Frame = Vote(w, j, i, b) =>
                In(todo, Vote(w, j, i, b)) /\ ~In(Tail(todo), Vote(w, j, i, b))
<1>1. todo \in Seq(Calls) /\ todo # << >>
  BY DEF TypeOK, Running
<1>2. \A x : /\ In(Tail(todo), x) => In(todo, x)
             /\ Once(todo, x) => Once(Tail(todo), x)
             /\ Once(todo, x) /\ Frame = x => ~In(Tail(todo), x)
  BY <1>1, InTail DEF Frame
<1>3. In(todo, Frame)
  BY <1>1 DEF In, Frame
<1> QED
  BY <1>2, <1>3 DEF FewerVotes, WordsAreOnce

\* What processMessage leaves to do is what was left, and perhaps a round to announce.
LEMMA ProcessTodo ==
  ASSUME TypeOK, WordsAreOnce, Process
  PROVE  \A w, j, i \in Witness : \A b \in Blocks :
           /\ In(todo', Vote(w, j, i, b)) => In(Tail(todo), Vote(w, j, i, b))
           /\ Once(todo', Vote(w, j, i, b))
<1> DEFINE a == Frame.at
           agreed == RunConsensus(a, NewViews)
<1>1. /\ Tail(todo) \in Seq(Calls) /\ a \in Live /\ FewerVotes(Tail(todo))
  BY NewViewsType, FrameLeaves DEF Process, Calls
<1>2. \A w, j, i \in Witness : \A b \in Blocks : Once(Tail(todo), Vote(w, j, i, b))
  BY <1>1 DEF FewerVotes, WordsAreOnce
<1>3. CASE todo' = Tail(todo)
  BY <1>2, <1>3
<1>4. ASSUME NEW c \in Rounds, NextRoundOf(a, c, Tail(todo))
      PROVE  \A w, j, i \in Witness : \A b \in Blocks :
               /\ In(todo', Vote(w, j, i, b)) => In(Tail(todo), Vote(w, j, i, b))
               /\ Once(todo', Vote(w, j, i, b))
  <2> DEFINE call == Call(a, a, a, NextRoundMsg(GetRound(c)))
  <2>1. todo' = <<call>> \o Tail(todo)
    BY <1>4 DEF NextRoundOf
  <2>2. \A w, j, i \in Witness : \A b \in Blocks : Vote(w, j, i, b) # call
    BY DEF Call, Vote, NextRoundMsg, VoteMsg, Body
  <2> HIDE DEF call
  <2>3. \A w, j, i \in Witness : \A b \in Blocks :
          /\ In(<<call>> \o Tail(todo), Vote(w, j, i, b)) => In(Tail(todo), Vote(w, j, i, b))
          /\ Once(Tail(todo), Vote(w, j, i, b)) => Once(<<call>> \o Tail(todo), Vote(w, j, i, b))
    <3> SUFFICES ASSUME NEW w \in Witness, NEW j \in Witness, NEW i \in Witness, NEW b \in Blocks
                 PROVE  /\ In(<<call>> \o Tail(todo), Vote(w, j, i, b))
                             => In(Tail(todo), Vote(w, j, i, b))
                        /\ Once(Tail(todo), Vote(w, j, i, b))
                             => Once(<<call>> \o Tail(todo), Vote(w, j, i, b))
      OBVIOUS
    <3> DEFINE s == Tail(todo)
    <3>1. s \in Seq(Calls) /\ Vote(w, j, i, b) # call
      BY <1>1, <2>2
    <3> HIDE DEF s
    <3>2. /\ In(<<call>> \o s, Vote(w, j, i, b)) => In(s, Vote(w, j, i, b))
          /\ Once(s, Vote(w, j, i, b)) => Once(<<call>> \o s, Vote(w, j, i, b))
      BY <3>1, InCons
    <3> QED
      BY <3>2 DEF s
  <2> QED
    BY <1>2, <2>1, <2>3
<1>5. NextRound(rounds[a]) \in Rounds
  <2>1. rounds[a] \in Rounds /\ 0 \in Nat
    BY <1>1 DEF TypeOK
  <2> QED
    BY <2>1, RoundsType
<1>6. todo' = Tail(todo) \/ NextRoundOf(a, NextRound(rounds[a]), Tail(todo))
  <2> HIDE DEF agreed
  <2>1. Hear(a, agreed) \/ AgreeRound(a, agreed) \/ AgreeReject(a, agreed) \/ AgreeBlock(a, agreed)
    BY DEF Process, agreed
  <2> QED
    BY <2>1 DEF Hear, AgreeRound, AgreeReject, AgreeBlock
<1> QED
  BY <1>3, <1>4, <1>5, <1>6

\* What it leaves in the views.
LEMMA ProcessViews ==
  ASSUME TypeOK, Process, NEW w \in Live, NEW j \in Witness, NEW i \in Witness,
         NEW b \in Blocks, Seen(w, j, i, b)'
  PROVE  Seen(w, j, i, b) \/ Frame = Vote(w, j, i, b)
<1> DEFINE a == Frame.at
           agreed == RunConsensus(a, NewViews)
<1>1. Frame \in Calls /\ NewViews \in ViewsType /\ a \in Live
  BY NewViewsType DEF Process, Calls
<1>2. /\ views' = [views EXCEPT ![a] = NewViews] \/ views' = [views EXCEPT ![a] = EmptyViews]
  <2> HIDE DEF agreed
  <2>1. Hear(a, agreed) \/ AgreeRound(a, agreed) \/ AgreeReject(a, agreed) \/ AgreeBlock(a, agreed)
    BY DEF Process, agreed
  <2> QED
    BY <2>1 DEF Hear, AgreeRound, AgreeReject, AgreeBlock, ResetState
<1>3. views \in [Live -> ViewsType] /\ EmptyViews[j][i] # VoteMsg(b)
  BY DEF TypeOK, EmptyViews, NoData, VoteMsg, Body
<1>4. CASE w # a
  BY <1>2, <1>3, <1>4 DEF Seen
<1>5. CASE w = a
  <2>1. NewViews[j][i] = VoteMsg(b)
    BY <1>1, <1>2, <1>3, <1>5 DEF Seen
  <2>2. Running
    BY DEF Process
  <2> QED
    BY <1>5, <2>1, <2>2, NewlySeen
<1> QED
  BY <1>4, <1>5

\* What processMessage leaves on the links.
LEMMA ProcessLinks ==
  ASSUME CertInv, WordsComeOnce, Process,
         NEW u \in Witness, NEW v \in Witness, NEW i \in Witness, NEW b \in Blocks
  PROVE  /\ In(net'[u][v], Word(b, i)) => In(net[u][v], Word(b, i)) \/ Frame = Vote(u, u, i, b)
         /\ Once(net'[u][v], Word(b, i))
<1> DEFINE a == Frame.at
           e == [of |-> Frame.of, body |-> Frame.body]
<1>1. TypeOK /\ WordsAreOnce /\ net[u][v] \in Seq(Envelopes)
  BY DEF CertInv, WordsComeOnce, TypeOK
<1>2. Frame \in Calls /\ a \in Live
  BY <1>1, NewViewsType DEF Process, Calls
<1>3. Once(net[u][v], Word(b, i))
  BY <1>1 DEF WordsAreOnce
<1>4. CASE net'[u][v] = net[u][v]
  BY <1>3, <1>4
<1>5. CASE net'[u][v] # net[u][v]
  <2>1. Frame.from = a /\ net' = Broadcast(a, Frame.of, Frame.body)
    BY <1>5 DEF Process, Send
  <2>2. /\ u = a /\ v # a /\ Connected(a, v)
        /\ net'[u][v] = Append(net[u][v], e)
    <3>1. \A x, y \in Witness :
            net'[x][y] = IF x = a /\ y # a /\ Connected(a, y) THEN Append(net[x][y], e)
                                                             ELSE net[x][y]
      BY <1>1, <1>2, <2>1, BroadcastLinks
    <3> HIDE DEF a, e
    <3> QED
      BY <1>5, <3>1
  <2>3. e = Word(b, i) => Frame = Vote(u, u, i, b)
    BY <1>2, <2>1, <2>2 DEF Word, Vote, Call, Calls
  <2>4. Frame = Vote(u, u, i, b) => ~In(net[u][v], Word(b, i))
    <3>1. v \in Live
      <4>1. up \subseteq Links /\ {a, v} \in up
        BY <1>1, <2>2 DEF TypeOK, Connected
      <4>2. Links \subseteq {{x, y} : x, y \in Live}
        BY BftAssumption DEF BftAssumption
      <4> QED
        BY <4>1, <4>2
    <3>2. Running
      BY DEF Process
    <3>3. Frame = Vote(u, u, i, b) => Says(u, i, b)
      BY <1>1, <3>2, FrameLeaves DEF Says
    <3>4. OneWay(v, u, i, b)
      BY <3>1 DEF WordsComeOnce
    <3> QED
      BY <2>2, <3>3, <3>4 DEF OneWay, Past, Sent
  <2> HIDE DEF e
  <2>5. /\ In(Append(net[u][v], e), Word(b, i)) <=> In(net[u][v], Word(b, i)) \/ e = Word(b, i)
        /\ Once(net[u][v], Word(b, i)) /\ (e = Word(b, i) => ~In(net[u][v], Word(b, i)))
              => Once(Append(net[u][v], e), Word(b, i))
    BY <1>1, InAppend
  <2> QED
    BY <1>3, <2>2, <2>3, <2>4, <2>5
<1> QED
  BY <1>4, <1>5

LEMMA ProcessWords ==
  ASSUME CertInv, WordsComeOnce, Process
  PROVE  WordsMove /\ WordsAreOnce'
<1>1. TypeOK /\ WordsAreOnce /\ Running
  BY DEF CertInv, WordsComeOnce, Process
<1>2. WordsAreOnce'
  <2>1. \A w, j, i \in Witness : \A b \in Blocks : Once(todo', Vote(w, j, i, b))
    BY <1>1, ProcessTodo
  <2>2. \A w, j, i \in Witness : \A b \in Blocks : Once(net'[j][w], Word(b, i))
    BY ProcessLinks
  <2>3. ASSUME NEW w \in Witness
        PROVE  net'[w][w] = << >>
    <3>1. net'[w][w] = net[w][w] \/ net' = Broadcast(Frame.at, Frame.of, Frame.body)
      BY DEF Process, Send
    <3>2. Frame.at \in Live
      BY <1>1, NewViewsType DEF Calls
    <3>3. net'[w][w] = net[w][w]
      BY <1>1, <3>1, <3>2, BroadcastLinks
    <3> QED
      BY <1>1, <3>3 DEF WordsAreOnce
  <2> QED
    BY <2>1, <2>2, <2>3 DEF WordsAreOnce
<1>3. \A w, j, i \in Witness : \A b \in Blocks :
        /\ In(todo', Vote(w, j, i, b)) => In(todo, Vote(w, j, i, b))
        /\ Frame = Vote(w, j, i, b) => /\ In(todo, Vote(w, j, i, b))
                                       /\ ~In(todo', Vote(w, j, i, b))
  BY <1>1, ProcessTodo, FrameLeaves DEF FewerVotes
<1>4. ASSUME NEW w \in Live, NEW j \in Witness, NEW i \in Witness, NEW b \in Blocks
      PROVE  Moves(w, j, i, b)
  <2>1. w \in Witness
    BY Constants
  <2>2. Heard(j, i, b)' => Heard(j, i, b) \/ (Says(i, i, b) /\ ~Says(i, i, b)')
    <3>1. In(net'[i][j], Word(b, i)) => In(net[i][j], Word(b, i)) \/ Frame = Vote(i, i, i, b)
      BY ProcessLinks
    <3> QED
      BY <1>3, <3>1 DEF Heard, Says
  <2>3. Says(j, i, b)' => Says(j, i, b)
    BY <1>3 DEF Says
  <2>4. Sent(w, j, i, b)' => Sent(w, j, i, b) \/ (Says(j, i, b) /\ ~Says(j, i, b)')
    <3>1. In(net'[j][w], Word(b, i)) => In(net[j][w], Word(b, i)) \/ Frame = Vote(j, j, i, b)
      BY <2>1, ProcessLinks
    <3> QED
      BY <1>3, <3>1 DEF Sent, Says
  <2>5. Due(w, j, i, b)' => Due(w, j, i, b)
    BY <1>3, <2>1 DEF Due
  <2>6. Seen(w, j, i, b)' => \/ Seen(w, j, i, b)
                             \/ w = j /\ Says(j, i, b) /\ ~Says(j, i, b)'
                             \/ Due(w, j, i, b) /\ ~Due(w, j, i, b)'
    <3>1. Seen(w, j, i, b)' => Seen(w, j, i, b) \/ Frame = Vote(w, j, i, b)
      BY <1>1, ProcessViews
    <3> QED
      BY <1>3, <2>1, <3>1 DEF Says, Due
  <2> QED
    BY <2>2, <2>3, <2>4, <2>5, <2>6 DEF Moves
<1> QED
  BY <1>2, <1>4 DEF WordsMove

\* A word that is read from a link is heard, and then relayed if it was its sender's own.
LEMMA DeliverWords ==
  ASSUME CertInv, WordsComeOnce, NEW v \in Live, NEW w \in Live, DeliverWord(v, w)
  PROVE  WordsMove /\ WordsAreOnce'
<1> DEFINE m == Received(v, w)
           own == Call(w, w, v, m.body)
           his == Call(w, v, m.of, m.body)
<1>1. TypeOK /\ WordsAreOnce /\ v \in Witness /\ w \in Witness
  BY Constants DEF CertInv, WordsComeOnce
<1>2. /\ net[v][w] \in Seq(Envelopes) /\ net[v][w] # << >> /\ m = Head(net[v][w])
      /\ m \in Envelopes /\ todo = << >>
  BY <1>1 DEF TypeOK, DeliverWord, Received, Running
<1>3. v # w
  BY <1>1, <1>2 DEF WordsAreOnce
<1>4. \A x, y \in Witness : net'[x][y] = IF x = v /\ y = w THEN Tail(net[v][w]) ELSE net[x][y]
  BY <1>1 DEF TypeOK, DeliverWord, Take
<1>5. FewerWords
  <2>1. \A x, y \in Witness : Shortened(net[x][y], net'[x][y])
    BY <1>2, <1>4 DEF Shortened
  <2> QED
    BY <1>1, <2>1, ShorterLinks
<1>6. views' = views
  BY DEF DeliverWord, consensusVars
<1>7. \A i \in Witness : \A b \in Blocks :
        m = Word(b, i) => In(net[v][w], Word(b, i)) /\ ~In(net'[v][w], Word(b, i))
  <2>1. \A x : /\ Once(net[v][w], x) /\ m = x => ~In(Tail(net[v][w]), x)
    BY <1>2, InTail
  <2>2. In(net[v][w], m)
    BY <1>2 DEF In
  <2>3. \A i \in Witness : \A b \in Blocks : Once(net[v][w], Word(b, i))
    BY <1>1 DEF WordsAreOnce
  <2> QED
    BY <1>1, <1>4, <2>1, <2>2, <2>3
<1>8. \A x, y, i \in Witness : \A b \in Blocks :
        /\ own = Vote(x, y, i, b) => x = w /\ y = w /\ i = v /\ m.body = VoteMsg(b)
        /\ his = Vote(x, y, i, b) => x = w /\ y = v /\ m = Word(b, i)
  BY <1>2 DEF Vote, Word, Call, Envelopes
<1>9. todo' = IF m.of = v THEN <<own, his>> ELSE <<his>>
  BY DEF DeliverWord
<1>10. own # his
  BY <1>3 DEF Call
<1> HIDE DEF m, own, his
<1>11. \A x : /\ In(todo', x) => (m.of = v /\ x = own) \/ x = his
              /\ Once(todo', x)
  BY <1>9, <1>10 DEF In, Once
<1>12. \A x, y, i \in Witness : \A b \in Blocks :
         In(todo', Vote(x, y, i, b)) =>
           /\ x = w /\ m = Word(b, i)
           /\ y = v \/ (y = w /\ i = v)
  BY <1>2, <1>8, <1>11 DEF Word, Envelopes
<1>13. WordsAreOnce'
  BY <1>1, <1>5, <1>11 DEF WordsAreOnce, FewerWords
<1>14. ASSUME NEW x \in Live, NEW j \in Witness, NEW i \in Witness, NEW b \in Blocks
       PROVE  Moves(x, j, i, b)
  <2>1. x \in Witness
    BY Constants
  <2>2. Heard(j, i, b)' => Heard(j, i, b)
    BY <1>5 DEF Heard, FewerWords
  <2>3. Says(j, i, b)' => Heard(j, i, b) /\ ~Heard(j, i, b)'
    BY <1>3, <1>7, <1>12 DEF Heard, Says
  <2>4. Sent(x, j, i, b)' => Sent(x, j, i, b)
    BY <1>5, <2>1 DEF Sent, FewerWords
  <2>5. Due(x, j, i, b)' => Sent(x, j, i, b) /\ ~Sent(x, j, i, b)'
    BY <1>3, <1>7, <1>12, <2>1 DEF Sent, Due
  <2>6. Seen(x, j, i, b)' => Seen(x, j, i, b)
    BY <1>6 DEF Seen
  <2> QED
    BY <2>2, <2>3, <2>4, <2>5, <2>6 DEF Moves
<1> QED
  BY <1>13, <1>14 DEF WordsMove

\* A first vote for a block: there is no word of it anywhere yet.
LEMMA VoteWords ==
  ASSUME CertInv, WordsComeOnce, NEW w \in Live, NEW c \in Blocks, todo = << >>,
         ProcessValidBlock(w, c), c \notin BlocksVoted(w), FewerWords, views' = views
  PROVE  WordsMove /\ WordsAreOnce'
<1> DEFINE call == Call(w, w, w, VoteMsg(c))
<1>1. WordsAreOnce
  BY DEF WordsComeOnce
<1>2. \A x, j, i \in Witness : \A b \in Blocks :
        call = Vote(x, j, i, b) => x = w /\ j = w /\ i = w /\ b = c
  BY DEF Vote, Call, VoteMsg, Body
<1>3. todo' = <<call>> \/ todo' = << >>
  BY DEF ProcessValidBlock
<1> HIDE DEF call
<1>4. \A x : (In(todo', x) => x = call) /\ Once(todo', x)
  BY <1>3 DEF In, Once
<1>5. \A x, j, i \in Witness : \A b \in Blocks :
        In(todo', Vote(x, j, i, b)) => x = w /\ j = w /\ i = w /\ b = c
  BY <1>2, <1>4
<1>6. WordsAreOnce'
  BY <1>1, <1>4 DEF WordsAreOnce, FewerWords
<1>7. ASSUME NEW x \in Live, NEW j \in Witness, NEW i \in Witness, NEW b \in Blocks
      PROVE  Moves(x, j, i, b)
  <2>1. x \in Witness
    BY Constants
  <2>2. Heard(j, i, b)' => Heard(j, i, b)
    BY DEF Heard, FewerWords
  <2>3. Says(j, i, b)' => j = i /\ b \notin BlocksVoted(i)
    BY <1>5 DEF Says
  <2>4. Sent(x, j, i, b)' => Sent(x, j, i, b)
    BY <2>1 DEF Sent, FewerWords
  <2>5. ~Due(x, j, i, b)'
    BY <1>5, <2>1 DEF Due
  <2>6. Seen(x, j, i, b)' => Seen(x, j, i, b)
    BY DEF Seen
  <2> QED
    BY <2>2, <2>3, <2>4, <2>5, <2>6 DEF Moves
<1> QED
  BY <1>6, <1>7 DEF WordsMove

-----------------------------------------------------------------------------
(***************************************************************************)
(* What a step may do to the blocks, in the same way.                      *)
(***************************************************************************)
JustMade(b) == b > Len(made) /\ b <= Len(made')

BlockMoves(v, b) ==
  /\ b \in BlocksVoted(v)' => b \in BlocksVoted(v) \/ (HasJobFor(v, b) /\ ~HasJobFor(v, b)')
  /\ HasJobFor(v, b)' =>
       /\ \/ HasJobFor(v, b)
          \/ \E u \in Witness : Carries(net[u][v], b) /\ ~Carries(net'[u][v], b)
          \/ JustMade(b) /\ Creates(v, b)'
       /\ \/ OneJobFor(v, b)'
          \/ HasJobFor(v, b) /\ ~(OneJobFor(v, b) /\ NotOnTheWay(v, b))
  /\ \A u \in Witness :
       /\ Carries(net'[u][v], b) =>
            \/ Carries(net[u][v], b)
            \/ u \in Live /\ u # v /\ Creates(u, b) /\ ~HasJobFor(u, b)'
       /\ \/ CarriesOnce(net'[u][v], b)
          \/ ~CarriesOnce(net[u][v], b)
          \/ u \in Live /\ Creates(u, b) /\ Carries(net[u][v], b)
  /\ Creates(v, b)' =>
       \/ Creates(v, b)
       \/ JustMade(b) /\ \A x \in Live : Creates(x, b)' => Creates(x, b) \/ x = v

BlocksMove ==
  /\ Len(made') >= Len(made)
  /\ \A v \in Live : \A b \in Blocks : BlockMoves(v, b)

LEMMA BlocksArrive ==
  ASSUME TypeOK, TypeOK', BlocksArriveOnce, BlocksMove
  PROVE  BlocksArriveOnce'
<1>1. Len(made) \in Nat /\ Len(made') \in Nat /\ Len(made') >= Len(made) /\ Blocks \subseteq Nat
  BY Constants DEF TypeOK, BlocksMove, Blocks
<1>2. /\ \A v \in Live : \A b \in Blocks : Creates(v, b) => HasJobFor(v, b)
      /\ \A v \in Live : \A b \in Blocks : Creates(v, b)' => HasJobFor(v, b)'
  BY DEF Creates, HasJobFor, ListsNew, Lists
<1> SUFFICES ASSUME NEW v \in Live, NEW b \in Blocks
             PROVE  Arrives(v, b)'
  BY DEF BlocksArriveOnce
<1>3. Arrives(v, b) /\ BlockMoves(v, b)
  BY DEF BlocksArriveOnce, BlocksMove
<1>4. \A x \in Live : Arrives(x, b) /\ BlockMoves(x, b)
  BY DEF BlocksArriveOnce, BlocksMove
\* What is on a link to someone now, and was not before.
<1>5. ASSUME NEW x \in Live, NEW u \in Witness, Carries(net'[u][x], b), ~Carries(net[u][x], b)
      PROVE  u \in Live /\ u # x /\ Creates(u, b) /\ ~HasJobFor(u, b)'
  BY <1>4, <1>5 DEF BlockMoves
\* Then nobody else has it.
<1>6. ASSUME NEW u \in Live, Creates(u, b)
      PROVE  /\ \A x \in Live : b \notin BlocksVoted(x) /\ NotOnTheWay(x, b)
             /\ \A x \in Live : HasJobFor(x, b) => x = u
             /\ ~(b > Len(made))
  BY <1>1, <1>2, <1>4, <1>6 DEF Arrives
<1>7. ASSUME NEW x \in Live, JustMade(b)
      PROVE  b \notin BlocksVoted(x) /\ ~HasJobFor(x, b) /\ NotOnTheWay(x, b) /\ ~Creates(x, b)
  BY <1>2, <1>4, <1>7 DEF Arrives, JustMade
<1>8. ASSUME NEW x \in Live, NotOnTheWay(x, b), ~NotOnTheWay(x, b)'
      PROVE  \E u \in Live : u # x /\ Creates(u, b) /\ ~HasJobFor(u, b)'
  <2>1. PICK u \in Witness : Carries(net'[u][x], b)
    BY <1>8 DEF NotOnTheWay
  <2>2. ~Carries(net[u][x], b)
    BY <1>8 DEF NotOnTheWay
  <2> QED
    BY <1>5, <1>8, <2>1, <2>2
<1>9. b \in BlocksVoted(v)' => ~HasJobFor(v, b)' /\ NotOnTheWay(v, b)'
  <2> SUFFICES ASSUME b \in BlocksVoted(v)'
               PROVE  ~HasJobFor(v, b)' /\ NotOnTheWay(v, b)'
    OBVIOUS
  <2>1. NotOnTheWay(v, b)
    BY <1>3 DEF BlockMoves, Arrives
  <2>2. ~HasJobFor(v, b)'
    BY <1>3, <1>7, <2>1 DEF BlockMoves, Arrives, NotOnTheWay
  <2>3. NotOnTheWay(v, b)'
    BY <1>3, <1>6, <1>8, <2>1 DEF BlockMoves
  <2> QED
    BY <2>2, <2>3
<1>10. HasJobFor(v, b)' => OneJobFor(v, b)' /\ NotOnTheWay(v, b)'
  <2> SUFFICES ASSUME HasJobFor(v, b)'
               PROVE  OneJobFor(v, b)' /\ NotOnTheWay(v, b)'
    OBVIOUS
  <2>1. OneJobFor(v, b)'
    BY <1>3 DEF BlockMoves, Arrives
  <2>2. CASE HasJobFor(v, b)
    <3>1. NotOnTheWay(v, b)
      BY <1>3, <2>2 DEF Arrives
    <3> QED
      BY <1>6, <1>8, <2>1, <2>2, <3>1
  <2>3. CASE \E u \in Witness : Carries(net[u][v], b) /\ ~Carries(net'[u][v], b)
    <3>1. PICK u \in Witness : Carries(net[u][v], b) /\ ~Carries(net'[u][v], b)
      BY <2>3
    <3>2. ASSUME NEW x \in Witness, Carries(net'[x][v], b)
          PROVE  FALSE
      <4>1. CASE Carries(net[x][v], b)
        BY <1>3, <3>1, <3>2, <4>1 DEF Arrives, OnTheWayOnce
      <4>2. CASE ~Carries(net[x][v], b)
        BY <1>5, <1>6, <3>1, <3>2, <4>2 DEF NotOnTheWay
      <4> QED
        BY <4>1, <4>2
    <3> QED
      BY <2>1, <3>2 DEF NotOnTheWay
  <2>4. CASE JustMade(b)
    BY <1>7, <1>8, <2>1, <2>4
  <2> QED
    BY <1>3, <2>2, <2>3, <2>4 DEF BlockMoves
<1>11. OnTheWayOnce(v, b)'
  <2>1. ASSUME NEW u \in Witness
        PROVE  CarriesOnce(net'[u][v], b)
    BY <1>3, <1>6 DEF BlockMoves, Arrives, OnTheWayOnce, NotOnTheWay
  <2>2. ASSUME NEW u \in Witness, NEW x \in Witness,
               Carries(net'[u][v], b), Carries(net'[x][v], b)
        PROVE  u = x
    <3>1. CASE Carries(net[u][v], b) /\ Carries(net[x][v], b)
      BY <1>3, <3>1 DEF Arrives, OnTheWayOnce
    <3>2. CASE ~Carries(net[u][v], b)
      <4>1. u \in Live /\ Creates(u, b)
        BY <1>5, <2>2, <3>2
      <4>2. ~Carries(net[x][v], b)
        BY <1>6, <4>1 DEF NotOnTheWay
      <4>3. x \in Live /\ Creates(x, b)
        BY <1>5, <2>2, <4>2
      <4> QED
        BY <1>2, <1>6, <4>1, <4>3
    <3>3. CASE ~Carries(net[x][v], b)
      <4>1. x \in Live /\ Creates(x, b)
        BY <1>5, <2>2, <3>3
      <4>2. ~Carries(net[u][v], b)
        BY <1>6, <4>1 DEF NotOnTheWay
      <4>3. u \in Live /\ Creates(u, b)
        BY <1>5, <2>2, <4>2
      <4> QED
        BY <1>2, <1>6, <4>1, <4>3
    <3> QED
      BY <3>1, <3>2, <3>3
  <2> QED
    BY <2>1, <2>2 DEF OnTheWayOnce
<1>12. ASSUME Creates(v, b)', NEW x \in Live
       PROVE  /\ b \notin BlocksVoted(x)' /\ NotOnTheWay(x, b)'
              /\ HasJobFor(x, b)' => x = v
  <2>1. HasJobFor(v, b)' /\ BlockMoves(x, b)
    BY <1>2, <1>4, <1>12
  <2>2. CASE Creates(v, b)
    <3>1. /\ b \notin BlocksVoted(x) /\ NotOnTheWay(x, b)
          /\ HasJobFor(x, b) => x = v
          /\ ~JustMade(b)
      BY <1>6, <2>2 DEF JustMade
    <3>2. b \notin BlocksVoted(x)'
      BY <2>1, <3>1 DEF BlockMoves
    <3>3. NotOnTheWay(x, b)'
      BY <1>2, <1>6, <1>8, <2>1, <2>2, <3>1
    <3>4. HasJobFor(x, b)' => x = v
      BY <2>1, <3>1 DEF BlockMoves, NotOnTheWay
    <3> QED
      BY <3>2, <3>3, <3>4
  <2>3. CASE ~Creates(v, b)
    <3>1. JustMade(b) /\ \A y \in Live : Creates(y, b)' => Creates(y, b) \/ y = v
      BY <1>3, <1>12, <2>3 DEF BlockMoves
    <3>2. b \notin BlocksVoted(x) /\ ~HasJobFor(x, b) /\ NotOnTheWay(x, b) /\ ~Creates(x, b)
      BY <1>7, <3>1
    <3>3. b \notin BlocksVoted(x)'
      BY <2>1, <3>2 DEF BlockMoves
    <3>4. NotOnTheWay(x, b)'
      BY <1>7, <1>8, <3>1, <3>2
    <3>5. HasJobFor(x, b)' => x = v
      BY <2>1, <3>1, <3>2 DEF BlockMoves, NotOnTheWay
    <3> QED
      BY <3>3, <3>4, <3>5
  <2> QED
    BY <2>2, <2>3
<1>13. ASSUME b > Len(made')
       PROVE  b \notin BlocksVoted(v)' /\ ~HasJobFor(v, b)' /\ NotOnTheWay(v, b)'
  <2>1. b > Len(made) /\ ~JustMade(b)
    BY <1>1, <1>13 DEF JustMade
  <2>2. b \notin BlocksVoted(v) /\ ~HasJobFor(v, b) /\ NotOnTheWay(v, b)
    BY <1>3, <2>1 DEF Arrives
  <2>3. b \notin BlocksVoted(v)' /\ ~HasJobFor(v, b)'
    BY <1>3, <2>1, <2>2 DEF BlockMoves, NotOnTheWay
  <2>4. NotOnTheWay(v, b)'
    BY <1>6, <1>8, <2>1, <2>2
  <2> QED
    BY <2>3, <2>4
<1> QED
  BY <1>9, <1>10, <1>11, <1>12, <1>13 DEF Arrives

-----------------------------------------------------------------------------
(***************************************************************************)
(* The steps that move blocks.                                             *)
(***************************************************************************)
LEMMA ListsTail ==
  ASSUME NEW X, NEW s \in Seq(X), s # << >>, NEW b
  PROVE  /\ Lists(Tail(s), b) => Lists(s, b)
         /\ ListsOnce(s, b) => ListsOnce(Tail(s), b)
         /\ ListsNew(Tail(s), b) => ListsNew(s, b)
         /\ ListsOnce(s, b) /\ Head(s).block = b => ~Lists(Tail(s), b)
         /\ Head(s).block = b => Lists(s, b)
         /\ Head(s).block = b /\ Head(s).kind = "create" => ListsNew(s, b)
<1>1. /\ Len(s) \in Nat \ {0} /\ DOMAIN s = 1..Len(s) /\ Head(s) = s[1]
      /\ DOMAIN Tail(s) = 1..(Len(s) - 1)
      /\ \A k \in 1..(Len(s) - 1) : k + 1 \in 1..Len(s) /\ Tail(s)[k] = s[k + 1]
  OBVIOUS
<1>2. 1 \in 1..Len(s) /\ \A k \in 1..(Len(s) - 1) : k + 1 # 1
  BY <1>1
<1> QED
  BY <1>1, <1>2 DEF Lists, ListsOnce, ListsNew

LEMMA ListsAppend ==
  ASSUME NEW X, NEW s \in Seq(X), NEW y, NEW b
  PROVE  /\ Lists(Append(s, y), b) => Lists(s, b) \/ y.block = b
         /\ ListsOnce(s, b) /\ (y.block = b => ~Lists(s, b)) => ListsOnce(Append(s, y), b)
         /\ ListsNew(Append(s, y), b) => ListsNew(s, b) \/ (y.block = b /\ y.kind = "create")
<1>1. /\ Len(s) \in Nat /\ DOMAIN s = 1..Len(s)
      /\ DOMAIN Append(s, y) = 1..(Len(s) + 1)
      /\ \A k \in 1..Len(s) : Append(s, y)[k] = s[k]
      /\ Append(s, y)[Len(s) + 1] = y
  OBVIOUS
<1>2. \A k \in 1..(Len(s) + 1) : k \in 1..Len(s) \/ k = Len(s) + 1
  BY <1>1
<1> QED
  BY <1>1, <1>2 DEF Lists, ListsOnce, ListsNew

LEMMA ListsHead ==
  ASSUME NEW X, NEW s \in Seq(X), s # << >>, NEW y, NEW b
  PROVE  /\ Lists(<<y>> \o Tail(s), b) => Lists(s, b) \/ y.block = b
         /\ ListsOnce(s, b) /\ (y.block = b => Head(s).block = b \/ ~Lists(s, b))
              => ListsOnce(<<y>> \o Tail(s), b)
         /\ ListsNew(<<y>> \o Tail(s), b) => ListsNew(s, b) \/ (y.block = b /\ y.kind = "create")
         /\ y.block = b /\ y.kind = "create" => ListsNew(<<y>> \o Tail(s), b)
<1> DEFINE t == <<y>> \o Tail(s)
<1>1. /\ Len(s) \in Nat \ {0} /\ DOMAIN s = 1..Len(s) /\ Head(s) = s[1]
      /\ DOMAIN t = 1..Len(s)
      /\ t[1] = y
      /\ \A k \in 1..Len(s) : k # 1 => t[k] = s[k]
  OBVIOUS
<1> HIDE DEF t
<1>2. 1 \in 1..Len(s)
  BY <1>1
<1>3. /\ Lists(t, b) => Lists(s, b) \/ y.block = b
      /\ ListsNew(t, b) => ListsNew(s, b) \/ (y.block = b /\ y.kind = "create")
      /\ y.block = b /\ y.kind = "create" => ListsNew(t, b)
  BY <1>1, <1>2 DEF Lists, ListsNew
<1>4. ASSUME ListsOnce(s, b), y.block = b => Head(s).block = b \/ ~Lists(s, b)
      PROVE  ListsOnce(t, b)
  <2>1. \A k \in 1..Len(s) : t[k].block = b => s[k].block = b \/ (k = 1 /\ y.block = b)
    BY <1>1
  <2> QED
    BY <1>1, <1>2, <1>4, <2>1 DEF Lists, ListsOnce
<1> QED
  BY <1>3, <1>4 DEF t

FewerJobs ==
  \A v \in Live : \A b \in Blocks :
    /\ HasJobFor(v, b)' => HasJobFor(v, b)
    /\ OneJobFor(v, b) => OneJobFor(v, b)'
    /\ Creates(v, b)' => Creates(v, b)

LEMMA QuietBlocks ==
  ASSUME TypeOK, voted' = voted, made' = made, FewerBlocks, FewerJobs
  PROVE  BlocksMove
<1>1. Len(made) \in Nat /\ Len(made') >= Len(made)
  BY DEF TypeOK
<1>2. ASSUME NEW v \in Live, NEW b \in Blocks
      PROVE  BlockMoves(v, b)
  <2>1. b \in BlocksVoted(v)' => b \in BlocksVoted(v)
    BY DEF BlocksVoted
  <2>2. v \in Witness
    BY Constants
  <2>3. ~OneJobFor(v, b) => HasJobFor(v, b)
    BY DEF OneJobFor, HasJobFor, ListsOnce, Lists
  <2> QED
    BY <2>1, <2>2, <2>3 DEF BlockMoves, FewerJobs, FewerBlocks
<1> QED
  BY <1>1, <1>2 DEF BlocksMove

LEMMA SameJobs == jobs' = jobs => FewerJobs
BY DEF FewerJobs, HasJobFor, OneJobFor, Creates

LEMMA SameLinks ==
  ASSUME net' = net
  PROVE  FewerWords /\ FewerBlocks
BY DEF FewerWords, FewerBlocks

\* A job that ends.
LEMMA JobEnds ==
  ASSUME TypeOK, NEW w \in Live, jobs[w] # << >>, jobs' = [jobs EXCEPT ![w] = Tail(@)]
  PROVE  /\ FewerJobs
         /\ \A b \in Blocks : Job(w).block = b =>
              /\ HasJobFor(w, b)
              /\ OneJobFor(w, b) => ~HasJobFor(w, b)'
              /\ Job(w).kind = "create" => Creates(w, b)
<1>1. jobs[w] \in Seq(JobType) /\ jobs'[w] = Tail(jobs[w])
      /\ \A v \in Live : v # w => jobs'[v] = jobs[v]
  BY DEF TypeOK
<1>2. \A b \in Blocks :
        /\ Lists(Tail(jobs[w]), b) => Lists(jobs[w], b)
        /\ ListsOnce(jobs[w], b) => ListsOnce(Tail(jobs[w]), b)
        /\ ListsNew(Tail(jobs[w]), b) => ListsNew(jobs[w], b)
        /\ ListsOnce(jobs[w], b) /\ Head(jobs[w]).block = b => ~Lists(Tail(jobs[w]), b)
        /\ Head(jobs[w]).block = b => Lists(jobs[w], b)
        /\ Head(jobs[w]).block = b /\ Head(jobs[w]).kind = "create" => ListsNew(jobs[w], b)
  BY <1>1, ListsTail
<1>3. FewerJobs
  BY <1>1, <1>2 DEF FewerJobs, HasJobFor, OneJobFor, Creates
<1> QED
  BY <1>1, <1>2, <1>3 DEF Job, HasJobFor, OneJobFor, Creates

\* What a witness has voted for after it was given a block.
LEMMA NewVote ==
  ASSUME TypeOK, NEW w \in Live, NEW c \in Blocks, ProcessValidBlock(w, c)
  PROVE  \A v \in Live : \A b \in BlocksVoted(v)' : b \in BlocksVoted(v) \/ (v = w /\ b = c)
<1>1. CASE phase[w] = "BLOCK"
  <2> DEFINE vote == [block |-> c, round |-> GetRound(rounds[w])]
  <2>1. voted' = [voted EXCEPT ![w] = @ \cup {vote}]
    BY <1>1 DEF ProcessValidBlock
  <2>2. vote.block = c
    OBVIOUS
  <2> HIDE DEF vote
  <2>3. /\ voted'[w] = voted[w] \cup {vote}
        /\ \A v \in Live : v # w => voted'[v] = voted[v]
    BY <2>1 DEF TypeOK
  <2> QED
    BY <2>2, <2>3 DEF BlocksVoted
<1>2. CASE phase[w] # "BLOCK"
  BY <1>2 DEF ProcessValidBlock, BlocksVoted
<1> QED
  BY <1>1, <1>2

LEMMA StartVerifyBlocks ==
  ASSUME TypeOK, NEW w \in Live, StartVerify(w)
  PROVE  BlocksMove
<1> DEFINE j == [Job(w) EXCEPT !.running = TRUE, !.ok = CompareParents(w, Job(w).block)]
<1>1. /\ jobs[w] \in Seq(JobType) /\ jobs[w] # << >> /\ Job(w) \in JobType
      /\ Job(w) = Head(jobs[w]) /\ Job(w).kind = "verify"
  BY DEF TypeOK, StartVerify, HasJob, Job
<1>2. j.block = Job(w).block /\ j.kind = "verify"
  BY <1>1 DEF JobType
<1>3. jobs' = [jobs EXCEPT ![w] = <<j>> \o Tail(@)]
  BY DEF StartVerify
<1> HIDE DEF j
<1>4. jobs'[w] = <<j>> \o Tail(jobs[w]) /\ \A v \in Live : v # w => jobs'[v] = jobs[v]
  BY <1>3 DEF TypeOK
<1>5. ASSUME NEW b \in Blocks
      PROVE  /\ Lists(jobs'[w], b) => Lists(jobs[w], b)
             /\ ListsOnce(jobs[w], b) => ListsOnce(jobs'[w], b)
             /\ ListsNew(jobs'[w], b) => ListsNew(jobs[w], b)
  <2>1. j.block = b => Head(jobs[w]).block = b /\ Lists(jobs[w], b)
    BY <1>1, <1>2, ListsTail
  <2>2. /\ Lists(<<j>> \o Tail(jobs[w]), b) => Lists(jobs[w], b) \/ j.block = b
        /\ ListsOnce(jobs[w], b) /\ (j.block = b => Head(jobs[w]).block = b \/ ~Lists(jobs[w], b))
             => ListsOnce(<<j>> \o Tail(jobs[w]), b)
        /\ ListsNew(<<j>> \o Tail(jobs[w]), b)
             => ListsNew(jobs[w], b) \/ (j.block = b /\ j.kind = "create")
    BY <1>1, ListsHead
  <2> QED
    BY <1>2, <1>4, <2>1, <2>2
<1>6. FewerJobs
  BY <1>4, <1>5 DEF FewerJobs, HasJobFor, OneJobFor, Creates
<1> QED
  BY <1>6, SameLinks, QuietBlocks DEF StartVerify, chainVars

LEMMA StartCreateBlocks ==
  ASSUME TypeOK, BlocksArriveOnce, NEW w \in Live, StartCreate(w)
  PROVE  BlocksMove
<1> DEFINE c == Len(made) + 1
           j == [Job(w) EXCEPT !.running = TRUE, !.block = c]
<1>1. /\ jobs[w] \in Seq(JobType) /\ jobs[w] # << >> /\ Job(w) \in JobType
      /\ Job(w) = Head(jobs[w]) /\ Job(w).kind = "create"
  BY DEF TypeOK, StartCreate, HasJob, Job
<1>2. j.block = c /\ j.kind = "create"
  BY <1>1 DEF JobType
<1>3. /\ jobs' = [jobs EXCEPT ![w] = <<j>> \o Tail(@)]
      /\ Len(made) \in Nat /\ Len(made') = c
      /\ voted' = voted /\ net' = net
  BY DEF StartCreate, TypeOK
<1>4. c > Len(made) /\ c <= Len(made') /\ Len(made') >= Len(made)
  BY <1>3
<1> HIDE DEF j, c
<1>5. jobs'[w] = <<j>> \o Tail(jobs[w]) /\ \A v \in Live : v # w => jobs'[v] = jobs[v]
  BY <1>3 DEF TypeOK
<1>6. ASSUME NEW b \in Blocks
      PROVE  /\ Lists(jobs'[w], b) => Lists(jobs[w], b) \/ c = b
             /\ ListsOnce(jobs[w], b) /\ (c = b => ~Lists(jobs[w], b)) => ListsOnce(jobs'[w], b)
             /\ ListsNew(jobs'[w], b) => ListsNew(jobs[w], b) \/ c = b
             /\ c = b => ListsNew(jobs'[w], b)
  <2>1. /\ Lists(<<j>> \o Tail(jobs[w]), b) => Lists(jobs[w], b) \/ j.block = b
        /\ ListsOnce(jobs[w], b) /\ (j.block = b => Head(jobs[w]).block = b \/ ~Lists(jobs[w], b))
             => ListsOnce(<<j>> \o Tail(jobs[w]), b)
        /\ ListsNew(<<j>> \o Tail(jobs[w]), b)
             => ListsNew(jobs[w], b) \/ (j.block = b /\ j.kind = "create")
        /\ j.block = b /\ j.kind = "create" => ListsNew(<<j>> \o Tail(jobs[w]), b)
    BY <1>1, ListsHead
  <2> QED
    BY <1>2, <1>5, <2>1
<1>7. ASSUME NEW v \in Live, NEW b \in Blocks
      PROVE  BlockMoves(v, b)
  <2>1. b \in BlocksVoted(v)' => b \in BlocksVoted(v)
    BY <1>3 DEF BlocksVoted
  <2>2. ~OneJobFor(v, b) => HasJobFor(v, b)
    BY DEF OneJobFor, HasJobFor, ListsOnce, Lists
  <2>3. c = b => ~HasJobFor(v, b) /\ JustMade(b)
    BY <1>4 DEF BlocksArriveOnce, Arrives, JustMade
  <2>4. /\ HasJobFor(v, b)' => HasJobFor(v, b) \/ (v = w /\ c = b)
        /\ OneJobFor(v, b) => OneJobFor(v, b)'
        /\ v = w /\ c = b => Creates(v, b)'
        /\ Creates(v, b)' => Creates(v, b) \/ (v = w /\ c = b)
    BY <1>5, <1>6, <2>3 DEF HasJobFor, OneJobFor, Creates
  <2>5. c = b => \A x \in Live : Creates(x, b)' => Creates(x, b) \/ x = w
    BY <1>5 DEF Creates
  <2> QED
    BY <1>3, <2>1, <2>2, <2>3, <2>4, <2>5 DEF BlockMoves
<1> QED
  BY <1>4, <1>7 DEF BlocksMove

LEMMA DeliverBlockBlocks ==
  ASSUME TypeOK, BlocksArriveOnce, NEW v \in Live, NEW w \in Live, DeliverBlock(v, w)
  PROVE  BlocksMove /\ FewerWords
<1> DEFINE c == Received(v, w).body.value
           j == NewJob("verify", c)
<1>1. /\ v \in Witness /\ w \in Witness /\ net[v][w] \in Seq(Envelopes) /\ net[v][w] # << >>
      /\ Received(v, w) = Head(net[v][w]) /\ Received(v, w) \in Envelopes
  <2>1. v \in Witness /\ w \in Witness
    BY Constants
  <2>2. net[v][w] \in Seq(Envelopes) /\ net[v][w] # << >>
    BY <2>1 DEF TypeOK, DeliverBlock
  <2> QED
    BY <2>1, <2>2 DEF Received
<1>2. Received(v, w).body = BlockMsg(c) /\ c \in Blocks
  BY <1>1 DEF DeliverBlock, Envelopes, Bodies, BlockMsg, Body
<1>3. \A x, y \in Witness : net'[x][y] = IF x = v /\ y = w THEN Tail(net[v][w]) ELSE net[x][y]
  BY <1>1 DEF TypeOK, DeliverBlock, Take
<1>4. FewerWords /\ FewerBlocks
  <2>1. \A x, y \in Witness : Shortened(net[x][y], net'[x][y])
    BY <1>1, <1>3 DEF Shortened
  <2> QED
    BY <2>1, ShorterLinks
<1>5. Carries(net[v][w], c) /\ ~Carries(net'[v][w], c)
  <2>1. CarriesOnce(net[v][w], c)
    BY <1>1, <1>2 DEF BlocksArriveOnce, Arrives, OnTheWayOnce
  <2> QED
    BY <1>1, <1>2, <1>3, <2>1, CarriesTail
<1>6. /\ jobs' = [jobs EXCEPT ![w] = Append(@, j)] \/ jobs' = jobs
      /\ voted' = voted /\ made' = made
  BY DEF DeliverBlock, chainVars
<1>7. j.block = c /\ j.kind = "verify"
  BY DEF NewJob
<1>8. jobs[w] \in Seq(JobType) /\ jobs \in [Live -> Seq(JobType)] /\ Len(made) \in Nat
  BY DEF TypeOK
<1> HIDE DEF c, j
<1>9. ASSUME NEW x \in Live, NEW b \in Blocks
      PROVE  /\ HasJobFor(x, b)' => HasJobFor(x, b) \/ (x = w /\ b = c)
             /\ OneJobFor(x, b) /\ (x = w /\ b = c => ~HasJobFor(x, b)) => OneJobFor(x, b)'
             /\ Creates(x, b)' => Creates(x, b)
  <2>1. /\ Lists(Append(jobs[w], j), b) => Lists(jobs[w], b) \/ j.block = b
        /\ ListsOnce(jobs[w], b) /\ (j.block = b => ~Lists(jobs[w], b))
             => ListsOnce(Append(jobs[w], j), b)
        /\ ListsNew(Append(jobs[w], j), b) => ListsNew(jobs[w], b) \/ (j.block = b /\ j.kind = "create")
    BY <1>8, ListsAppend
  <2>2. jobs'[x] = jobs[x] \/ (x = w /\ jobs'[x] = Append(jobs[w], j))
    BY <1>6, <1>8
  <2>3. CASE jobs'[x] = jobs[x]
    BY <2>3 DEF HasJobFor, OneJobFor, Creates
  <2>4. CASE x = w /\ jobs'[x] = Append(jobs[w], j)
    BY <1>7, <2>1, <2>4 DEF HasJobFor, OneJobFor, Creates
  <2> QED
    BY <2>2, <2>3, <2>4
<1>10. ASSUME NEW x \in Live, NEW b \in Blocks
       PROVE  BlockMoves(x, b)
  <2>1. b \in BlocksVoted(x)' => b \in BlocksVoted(x)
    BY <1>6 DEF BlocksVoted
  <2>2. ~OneJobFor(x, b) => HasJobFor(x, b)
    BY DEF OneJobFor, HasJobFor, ListsOnce, Lists
  <2>3. x \in Witness
    BY Constants
  <2>4. x = w /\ b = c => ~NotOnTheWay(x, b)
    BY <1>1, <1>5 DEF NotOnTheWay
  <2>5. /\ HasJobFor(x, b)' =>
             \/ HasJobFor(x, b)
             \/ \E u \in Witness : Carries(net[u][x], b) /\ ~Carries(net'[u][x], b)
    BY <1>1, <1>5, <1>9
  <2>6. HasJobFor(x, b)' => \/ OneJobFor(x, b)'
                            \/ HasJobFor(x, b) /\ ~(OneJobFor(x, b) /\ NotOnTheWay(x, b))
    BY <1>9, <2>2, <2>4
  <2> QED
    BY <1>4, <1>9, <2>1, <2>3, <2>5, <2>6 DEF BlockMoves, FewerBlocks
<1> QED
  BY <1>4, <1>6, <1>8, <1>10 DEF BlocksMove

\* A witness that verified a block, or made it, has it no more, and has voted for it at most.
LEMMA FinishBlocks ==
  ASSUME TypeOK, BlocksArriveOnce, NEW w \in Live, FinishCreate(w) \/ FinishVerify(w)
  PROVE  /\ BlocksMove /\ FewerWords
         /\ Job(w).block \in Blocks /\ Job(w).block \notin BlocksVoted(w)
         /\ ProcessValidBlock(w, Job(w).block)
<1>0. HasJob(w, "create", TRUE) \/ HasJob(w, "verify", TRUE)
  BY DEF FinishCreate, FinishVerify
<1>1. PICK c \in Blocks : c = Job(w).block
  BY <1>0, JobIsTyped
<1>2. \/ HasJob(w, "create", TRUE) /\ net' = Broadcast(w, w, BlockMsg(c))
      \/ HasJob(w, "verify", TRUE) /\ net' = net
  BY <1>1 DEF FinishCreate, FinishVerify
<1>3. /\ ProcessValidBlock(w, c) /\ made' = made
      /\ jobs' = [jobs EXCEPT ![w] = Tail(@)] /\ jobs[w] # << >>
  BY <1>1 DEF FinishCreate, FinishVerify, chainVars, HasJob
<1>4. /\ FewerJobs /\ HasJobFor(w, c)
      /\ OneJobFor(w, c) => ~HasJobFor(w, c)'
      /\ Job(w).kind = "create" => Creates(w, c)
  BY <1>1, <1>3, JobEnds
<1>5. OneJobFor(w, c) /\ c \notin BlocksVoted(w)
  BY <1>1, <1>4 DEF BlocksArriveOnce, Arrives
<1>6. \A v \in Live : \A b \in BlocksVoted(v)' : b \in BlocksVoted(v) \/ (v = w /\ b = c)
  BY <1>1, <1>3, NewVote
<1>7. /\ FewerWords
      /\ \A u, v \in Witness : \A b \in Blocks :
           /\ Carries(net'[u][v], b) =>
                \/ Carries(net[u][v], b)
                \/ u = w /\ u # v /\ b = c /\ Creates(w, c)
           /\ \/ CarriesOnce(net'[u][v], b)
              \/ ~CarriesOnce(net[u][v], b)
              \/ u = w /\ b = c /\ Creates(w, c) /\ Carries(net[u][v], b)
  <2>1. CASE net' = net
    BY <2>1, SameLinks
  <2>2. CASE HasJob(w, "create", TRUE) /\ net' = Broadcast(w, w, BlockMsg(c))
    <3> DEFINE e == [of |-> w, body |-> BlockMsg(c)]
    <3>1. Creates(w, c)
      BY <1>4, <2>2 DEF HasJob
    <3>2. FewerWords
      <4>1. BlockMsg(c).state = "BLOCK"
        BY DEF BlockMsg, Body
      <4> QED
        BY <2>2, <4>1, BroadcastOf
    <3>3. \A u, v \in Witness :
            net'[u][v] = IF u = w /\ v # w /\ Connected(w, v) THEN Append(net[u][v], e) ELSE net[u][v]
      BY <2>2, BroadcastLinks
    <3>4. \A b \in Blocks : e.body = BlockMsg(b) => b = c
      BY DEF BlockMsg, Body
    <3> HIDE DEF e
    <3>5. ASSUME NEW u \in Witness, NEW v \in Witness, NEW b \in Blocks
          PROVE  /\ Carries(net'[u][v], b) =>
                      \/ Carries(net[u][v], b)
                      \/ u = w /\ u # v /\ b = c
                 /\ \/ CarriesOnce(net'[u][v], b)
                    \/ ~CarriesOnce(net[u][v], b)
                    \/ u = w /\ b = c /\ Carries(net[u][v], b)
      <4>1. CASE net'[u][v] = net[u][v]
        BY <4>1
      <4>2. CASE u = w /\ v # w /\ net'[u][v] = Append(net[u][v], e)
        <5>1. net[u][v] \in Seq(Envelopes)
          BY DEF TypeOK
        <5>2. /\ Carries(Append(net[u][v], e), b) <=> Carries(net[u][v], b) \/ e.body = BlockMsg(b)
              /\ CarriesOnce(net[u][v], b) /\ (e.body = BlockMsg(b) => ~Carries(net[u][v], b))
                   => CarriesOnce(Append(net[u][v], e), b)
          BY <5>1, CarriesAppend
        <5> QED
          BY <3>4, <4>2, <5>2
      <4> QED
        BY <3>3, <4>1, <4>2
    <3> QED
      BY <3>1, <3>2, <3>5
  <2> QED
    BY <1>2, <2>1, <2>2
<1>8. ASSUME NEW v \in Live, NEW b \in Blocks
      PROVE  BlockMoves(v, b)
  <2>1. v \in Witness
    BY Constants
  <2>2. ~OneJobFor(v, b) => HasJobFor(v, b)
    BY DEF OneJobFor, HasJobFor, ListsOnce, Lists
  <2>3. b \in BlocksVoted(v)' => b \in BlocksVoted(v) \/ (HasJobFor(v, b) /\ ~HasJobFor(v, b)')
    BY <1>4, <1>5, <1>6
  <2>4. \A u \in Witness :
          /\ Carries(net'[u][v], b) =>
               \/ Carries(net[u][v], b)
               \/ u \in Live /\ u # v /\ Creates(u, b) /\ ~HasJobFor(u, b)'
          /\ \/ CarriesOnce(net'[u][v], b)
             \/ ~CarriesOnce(net[u][v], b)
             \/ u \in Live /\ Creates(u, b) /\ Carries(net[u][v], b)
    BY <1>4, <1>5, <1>7, <2>1
  <2> QED
    BY <1>4, <2>2, <2>3, <2>4 DEF BlockMoves, FewerJobs
<1>9. Len(made) \in Nat
  BY DEF TypeOK
<1> QED
  BY <1>1, <1>3, <1>5, <1>7, <1>8, <1>9 DEF BlocksMove

\* processMessage moves no block; it may ask for one to be made.
LEMMA ProcessBlocks ==
  ASSUME TypeOK, Process
  PROVE  BlocksMove
<1> DEFINE w == Frame.at
           agreed == RunConsensus(w, NewViews)
           j == NewJob("create", NoBlock)
<1>1. Frame \in Calls /\ w \in Live /\ Frame.body \in Bodies
  BY NewViewsType DEF Process, Calls
<1>2. FewerBlocks
  <2>1. Frame.body.state # "BLOCK"
    BY <1>1 DEF Bodies
  <2>2. net' = net \/ net' = Broadcast(w, Frame.of, Frame.body)
    BY DEF Process, Send
  <2> QED
    BY <1>1, <2>1, <2>2, SameLinks, BroadcastOf
<1>3. jobs' = [jobs EXCEPT ![w] = Append(@, j)] \/ jobs' = jobs
  <2> HIDE DEF agreed
  <2>1. Hear(w, agreed) \/ AgreeRound(w, agreed) \/ AgreeReject(w, agreed) \/ AgreeBlock(w, agreed)
    BY DEF Process, agreed
  <2> QED
    BY <2>1 DEF Hear, AgreeRound, AgreeReject, AgreeBlock
<1>4. jobs[w] \in Seq(JobType) /\ jobs \in [Live -> Seq(JobType)]
  BY <1>1 DEF TypeOK
<1>5. \A b \in Blocks : j.block # b
  BY Constants DEF NewJob, NoBlock, Blocks
<1> HIDE DEF j
<1>6. ASSUME NEW b \in Blocks
      PROVE  /\ Lists(Append(jobs[w], j), b) => Lists(jobs[w], b)
             /\ ListsOnce(jobs[w], b) => ListsOnce(Append(jobs[w], j), b)
             /\ ListsNew(Append(jobs[w], j), b) => ListsNew(jobs[w], b)
  BY <1>4, <1>5, ListsAppend
<1>7. FewerJobs
  <2>1. ASSUME NEW v \in Live, NEW b \in Blocks
        PROVE  /\ Lists(jobs'[v], b) => Lists(jobs[v], b)
               /\ ListsOnce(jobs[v], b) => ListsOnce(jobs'[v], b)
               /\ ListsNew(jobs'[v], b) => ListsNew(jobs[v], b)
    <3>1. jobs'[v] = jobs[v] \/ (v = w /\ jobs'[v] = Append(jobs[w], j))
      BY <1>3, <1>4
    <3> QED
      BY <1>6, <3>1
  <2> QED
    BY <2>1 DEF FewerJobs, HasJobFor, OneJobFor, Creates
<1> QED
  BY <1>2, <1>7, QuietBlocks DEF Process

-----------------------------------------------------------------------------
(***************************************************************************)
(* The invariant.                                                          *)
(***************************************************************************)
\* A quorum of votes that is gone stays gone.
LEMMA StillQuorumGone ==
  ASSUME TypeOK, VotesGrow, WordsMove, NEW w \in Live, NEW b \in Blocks, QuorumGone(w, b)
  PROVE  QuorumGone(w, b)'
<1>1. PICK C \in SUBSET Live :
        /\ WeightOf(C) >= Quorum
        /\ \A i \in C : \E R \in SUBSET Witness :
             WeightOf(R) >= Quorum /\ \A j \in R : Gone(w, j, i, b)
  BY DEF QuorumGone
<1>2. ASSUME NEW i \in C, NEW j \in Witness, Gone(w, j, i, b)
      PROVE  Gone(w, j, i, b)'
  <2>1. i \in Live /\ i \in Witness
    BY Constants
  <2>2. Moves(w, j, i, b) /\ Moves(w, i, i, b)
    BY <2>1 DEF WordsMove
  <2> QED
    BY <1>2, <2>1, <2>2, GoneStays
<1>3. \A i \in C : \E R \in SUBSET Witness :
        WeightOf(R) >= Quorum /\ \A j \in R : Gone(w, j, i, b)'
  BY <1>1, <1>2
<1> QED
  BY <1>1, <1>3 DEF QuorumGone

LEMMA CommittedBlock ==
  ASSUME TypeOK, NEW w \in Live, NEW b \in Committed(w)
  PROVE  b \in Blocks /\ b # NoBlock
<1>1. PICK k \in DOMAIN log[w] : log[w][k].block = b
  BY DEF Committed
<1>2. log[w] \in Seq([block : Blocks, signers : SUBSET Witness])
  BY DEF TypeOK
<1>3. log[w][k] \in [block : Blocks, signers : SUBSET Witness]
  <2> DEFINE Entries == [block : Blocks, signers : SUBSET Witness]
  <2>1. log[w] \in Seq(Entries)
    BY <1>2
  <2> HIDE DEF Entries
  <2>2. log[w][k] \in Entries
    BY <2>1
  <2> QED
    BY <2>2 DEF Entries
<1> QED
  BY <1>1, <1>3, Constants DEF Blocks, NoBlock

\* A step that moves blocks and words as it may, and commits nothing.
LEMMA NothingCommitted ==
  ASSUME OnceInv, CertInv', VotesGrow, BlocksMove, WordsMove, WordsAreOnce', log' = log,
         \A w \in Live : \/ block'[w] \in {block[w], NoBlock}
                         \/ block'[w] \notin BlocksVoted(w)
  PROVE  OnceInv'
<1>1. CertInv /\ TypeOK /\ TypeOK' /\ CommitCertified
  BY DEF OnceInv, CertInv
<1>2. BlocksArriveOnce'
  BY <1>1, BlocksArrive DEF OnceInv
<1>3. WordsComeOnce'
  BY <1>1, WordMoves DEF OnceInv, WordsComeOnce, WordsMove
<1>4. CommittedForGood'
  <2> SUFFICES ASSUME NEW w \in Live, NEW b \in Committed(w)', block'[w] = b
               PROVE  QuorumGone(w, b)'
    BY DEF CommittedForGood
  <2>1. b \in Committed(w)
    BY DEF Committed
  <2>2. PICK k \in DOMAIN log[w] : log[w][k].block = b
    BY <2>1 DEF Committed
  <2>3. b \in Blocks /\ b # NoBlock
    BY <1>1, <2>1, CommittedBlock
  <2>4. b \in BlocksVoted(w)
    BY <1>1, <2>2 DEF CommitCertified
  <2>5. block[w] = b
    BY <2>3, <2>4
  <2> QED
    BY <1>1, <2>1, <2>3, <2>5, StillQuorumGone DEF OnceInv, CommittedForGood
<1>5. CommitOnce'
  BY DEF OnceInv, CommitOnce
<1> QED
  BY <1>2, <1>3, <1>4, <1>5 DEF OnceInv

\* The word that an agreement was reached with came once, and is gone with the views.
LEMMA AgreedIsGone ==
  ASSUME OnceInv, Process, NEW w \in Live, w = Frame.at, ResetState(w),
         NEW j \in Witness, NEW i \in Live, NEW b \in Blocks, b \in BlocksVoted(i),
         NewViews[j][i] = VoteMsg(b)
  PROVE  Gone(w, j, i, b)' /\ ~Gone(w, j, i, b)
<1>1. /\ CertInv /\ TypeOK /\ WordsComeOnce /\ WordsAreOnce /\ Running
      /\ w \in Witness /\ i \in Witness
  BY Constants DEF OnceInv, CertInv, WordsComeOnce, Process
<1>2. /\ OneWay(w, j, i, b)
      /\ Moves(w, j, i, b) /\ Moves(w, i, i, b)
  BY <1>1, ProcessWords DEF WordsComeOnce, WordsMove
<1>3. Seen(w, j, i, b) \/ Frame = Vote(w, j, i, b)
  BY <1>1, NewlySeen
<1>4. Frame = Vote(w, j, i, b) =>
        In(todo, Vote(w, j, i, b)) /\ ~In(todo', Vote(w, j, i, b))
  BY <1>1, FrameLeaves, ProcessTodo
<1>5. \/ Seen(w, j, i, b)
      \/ w = j /\ Says(j, i, b) /\ ~Says(j, i, b)'
      \/ Due(w, j, i, b) /\ ~Due(w, j, i, b)'
  BY <1>3, <1>4 DEF Says, Due
<1>6. ~Seen(w, j, i, b)'
  <2>1. views'[w] = EmptyViews
    BY <1>1 DEF ResetState, TypeOK
  <2>2. EmptyViews[j][i] # VoteMsg(b)
    BY <1>1 DEF EmptyViews, NoData, VoteMsg, Body
  <2> QED
    BY <2>1, <2>2 DEF Seen
<1>7. (w = j => ~Sent(w, j, i, b)' /\ ~Due(w, j, i, b)') /\ (Due(w, j, i, b) => w # j)
  BY DEF Sent, Due
<1>8. b \in BlocksVoted(i)'
  BY <1>1, SameVotes DEF Process, VotesGrow
<1>9. (Heard(j, i, b)' => j # i) /\ ~Heard(i, i, b)
  BY DEF Heard
<1>10. j # i => ~Says(i, i, b)'
  BY <1>2, <1>5, <1>9 DEF OneWay, Moves, Past
<1>11. ~Heard(j, i, b)' /\ ~Says(j, i, b)'
  BY <1>2, <1>5, <1>9 DEF OneWay, Moves, Past
<1>12. ~Sent(w, j, i, b)' /\ ~Due(w, j, i, b)'
  BY <1>2, <1>5, <1>7 DEF OneWay, Moves, Past
<1>13. ~Gone(w, j, i, b)
  BY <1>5 DEF Gone, Past
<1> QED
  BY <1>6, <1>8, <1>10, <1>11, <1>12, <1>13 DEF Gone, Past

\* An agreement on the block a witness holds is the first one, and the last.
LEMMA Commits ==
  ASSUME MajorityQuorum, OnceInv, CertInv', Process, log' # log
  PROVE  OnceInv'
<1>1. CertInv /\ TypeOK /\ TypeOK' /\ Running /\ WordsComeOnce /\ WordsAreOnce
  BY DEF OnceInv, CertInv, WordsComeOnce, Process
<1>2. PICK w \in Live : w = Frame.at
  BY <1>1, NewViewsType DEF Calls
<1>3. PICK agreed : agreed = RunConsensus(w, NewViews)
  OBVIOUS
<1>4. AgreeBlock(w, agreed)
  <2>1. Hear(w, agreed) \/ AgreeRound(w, agreed) \/ AgreeReject(w, agreed) \/ AgreeBlock(w, agreed)
    BY <1>2, <1>3 DEF Process
  <2> QED
    BY <2>1 DEF Hear, AgreeRound, AgreeReject
<1>5. PICK c : c = agreed.value
  OBVIOUS
<1>6. PICK signers : signers = Signers(NewViews, c)
  OBVIOUS
<1>7. /\ c # Reject /\ block[w] = c /\ WeightOf(signers) >= Quorum
      /\ log' = [log EXCEPT ![w] = Append(@, [block |-> c, signers |-> signers])]
      /\ block' = block /\ ResetState(w)
  BY <1>4, <1>5, <1>6 DEF AgreeBlock
<1>8. c \in Blocks
  BY <1>1, <1>7 DEF TypeOK, NoBlock, Reject
<1>9. \A i \in signers : i \in Live /\ c \in BlocksVoted(i)
  BY <1>1, <1>6, <1>7, TrueFrame, SignersVoted
<1>10. VotesGrow /\ WordsMove /\ WordsAreOnce'
  BY <1>1, SameVotes, ProcessWords DEF Process
<1>11. WordsComeOnce'
  BY <1>1, <1>10, WordMoves DEF WordsComeOnce, WordsMove
<1>12. BlocksArriveOnce'
  BY <1>1, ProcessBlocks, BlocksArrive DEF OnceInv
\* Each signer was heard of from a quorum.
<1> DEFINE From(i) == Holders(Column(NewViews, i), VoteMsg(c))
<1>13. ASSUME NEW i \in signers
       PROVE  /\ From(i) \in SUBSET Witness /\ WeightOf(From(i)) >= Quorum
              /\ \A j \in From(i) : NewViews[j][i] = VoteMsg(c)
  <2>1. i \in Witness /\ Majority(Column(NewViews, i)) = VoteMsg(c)
    BY <1>6 DEF Signers, Columns
  <2>2. VoteMsg(c) # NoData
    BY DEF VoteMsg, NoData, Body
  <2>3. WeightOf(From(i)) >= Quorum
    BY <2>1, <2>2, MajorityIsHeld
  <2> QED
    BY <2>1, <2>3 DEF Holders, Column
<1>14. \A i \in signers : \A j \in From(i) : Gone(w, j, i, c)' /\ ~Gone(w, j, i, c)
  BY <1>2, <1>7, <1>8, <1>9, <1>13, AgreedIsGone
<1> HIDE DEF From
<1>15. QuorumGone(w, c)'
  <2>1. signers \in SUBSET Live
    BY <1>9
  <2>2. \A i \in signers : \E R \in SUBSET Witness :
          WeightOf(R) >= Quorum /\ \A j \in R : Gone(w, j, i, c)'
    BY <1>13, <1>14
  <2> QED
    BY <1>7, <2>1, <2>2 DEF QuorumGone
\* It can not have been committed before: two quorums of signers have one in common,
\* and the two quorums it was heard of from have a witness in common.
<1>16. c \notin Committed(w)
  <2> SUFFICES ASSUME c \in Committed(w)
               PROVE  FALSE
    OBVIOUS
  <2>1. PICK C \in SUBSET Live :
          /\ WeightOf(C) >= Quorum
          /\ \A i \in C : \E R \in SUBSET Witness :
               WeightOf(R) >= Quorum /\ \A j \in R : Gone(w, j, i, c)
    BY <1>7, <1>8 DEF OnceInv, CommittedForGood, QuorumGone
  <2>2. C \in SUBSET Witness /\ signers \in SUBSET Witness
    BY <1>9, Constants
  <2>3. PICK i : i \in C \cap signers
    BY <1>7, <2>1, <2>2, QuorumsMeet DEF MajorityQuorum
  <2>4. PICK R \in SUBSET Witness : WeightOf(R) >= Quorum /\ \A j \in R : Gone(w, j, i, c)
    BY <2>1, <2>3
  <2>5. From(i) \in SUBSET Witness /\ WeightOf(From(i)) >= Quorum
    BY <1>13, <2>3
  <2>6. PICK j : j \in R \cap From(i)
    BY <2>4, <2>5, QuorumsMeet DEF MajorityQuorum
  <2> QED
    BY <1>14, <2>3, <2>4, <2>6
<1>17. log \in [Live -> Seq([block : Blocks, signers : SUBSET Witness])]
  BY <1>1 DEF TypeOK
<1>18. /\ \A v \in Live : v # w => log'[v] = log[v]
       /\ DOMAIN log'[w] = 1..(Len(log[w]) + 1) /\ DOMAIN log[w] = 1..Len(log[w])
       /\ Len(log[w]) \in Nat
       /\ \A k \in DOMAIN log[w] : log'[w][k] = log[w][k]
       /\ log'[w][Len(log[w]) + 1].block = c
  BY <1>7, <1>17
<1>19. CommitOnce'
  <2> SUFFICES ASSUME NEW v \in Live, NEW k \in DOMAIN log'[v], NEW l \in DOMAIN log'[v],
                      log'[v][k].block = log'[v][l].block
               PROVE  k = l
    BY DEF CommitOnce
  <2>1. CASE v # w
    BY <1>18, <2>1 DEF OnceInv, CommitOnce
  <2>2. CASE v = w
    <3>1. \A m \in DOMAIN log[w] : log[w][m].block # c
      BY <1>16 DEF Committed
    <3>2. (k \in DOMAIN log[w] \/ k = Len(log[w]) + 1) /\ (l \in DOMAIN log[w] \/ l = Len(log[w]) + 1)
      BY <1>18, <2>2
    <3>3. CASE k \in DOMAIN log[w] /\ l \in DOMAIN log[w]
      BY <1>18, <2>2, <3>3 DEF OnceInv, CommitOnce
    <3> QED
      BY <1>18, <2>2, <3>1, <3>2, <3>3
  <2> QED
    BY <2>1, <2>2
<1>20. CommittedForGood'
  <2> SUFFICES ASSUME NEW v \in Live, NEW b \in Committed(v)', block'[v] = b
               PROVE  QuorumGone(v, b)'
    BY DEF CommittedForGood
  <2>1. CASE v = w
    BY <1>7, <1>15, <2>1
  <2>2. CASE v # w
    <3>1. b \in Committed(v) /\ block[v] = b
      BY <1>7, <1>18, <2>2 DEF Committed
    <3>2. b \in Blocks /\ QuorumGone(v, b)
      BY <1>1, <3>1, CommittedBlock DEF OnceInv, CommittedForGood
    <3> QED
      BY <1>1, <1>10, <3>2, StillQuorumGone
  <2> QED
    BY <2>1, <2>2
<1> QED
  BY <1>11, <1>12, <1>19, <1>20 DEF OnceInv

\* Every other step of a witness.
LEMMA OnceSteps ==
  ASSUME OnceInv, CertInv', Next, ~Process
  PROVE  OnceInv'
<1>0. /\ CertInv /\ TypeOK /\ BlocksArriveOnce /\ WordsComeOnce /\ WordsAreOnce
      /\ \A w \in Live : block[w] \in {block[w], NoBlock}
  BY DEF OnceInv, CertInv, WordsComeOnce
\* Steps that let in no block and no word, and hold no block that was not held.
<1>1. ASSUME voted' = voted, made' = made, log' = log, FewerJobs, FewerBlocks, FewerWords,
             FewerVotes(todo'), FewerSeen,
             \A w \in Live : block'[w] \in {block[w], NoBlock}
      PROVE  OnceInv'
  BY <1>0, <1>1, SameVotes, QuietBlocks, QuietWords, NothingCommitted
<1>2. /\ views' = views => FewerSeen
      /\ todo' = todo => FewerVotes(todo')
      /\ block' = block => \A w \in Live : block'[w] \in {block[w], NoBlock}
  BY <1>0, NoneIsFewer DEF FewerSeen, Seen
\* A round is announced by a witness that then holds no block.
<1>3. ASSUME NEW w \in Live, NEW c \in Rounds, NEW rest \in Seq(Calls), FewerVotes(rest),
             NextRoundOf(w, c, rest)
      PROVE  FewerVotes(todo') /\ \A v \in Live : block'[v] \in {block[v], NoBlock}
  <2> DEFINE call == Call(w, w, w, NextRoundMsg(GetRound(c)))
  <2>1. call \in Calls
    <3>1. GetRound(c) \in Nat /\ w \in Witness
      BY <1>3, RoundsType, Constants
    <3> QED
      BY <1>3, <3>1, CallType
  <2>2. call.body.state = "ROUND_CHANGE"
    BY DEF Call, NextRoundMsg, Body
  <2>3. todo' = <<call>> \o rest /\ block' = [block EXCEPT ![w] = NoBlock]
    BY <1>3 DEF NextRoundOf
  <2> HIDE DEF call
  <2>4. FewerVotes(<<call>> \o rest)
    BY <1>3, <2>1, <2>2, RoundIsNoVote
  <2>5. \A v \in Live : block'[v] \in {block[v], NoBlock}
    BY <1>0, <2>3 DEF TypeOK
  <2> QED
    BY <2>3, <2>4, <2>5
<1>4. CASE Tick
  BY <1>1, <1>2, <1>4, SameJobs, SameLinks DEF Tick, chainVars
<1>5. ASSUME NEW w \in Live, TimerFires(w)
      PROVE  OnceInv'
  <2> DEFINE c == IF phase[w] = "ROUND_CHANGE" THEN InitRounds(rounds[w])
                                               ELSE NextRound(rounds[w])
  <2>1. c \in Rounds
    <3>1. rounds[w] \in Rounds /\ 0 \in Nat
      BY <1>0, <1>5 DEF TypeOK
    <3> QED
      BY <3>1, RoundsType
  <2>2. /\ NextRoundOf(w, c, << >>)
        /\ UNCHANGED <<net, views, voted, log, jobs, made>>
    BY <1>5 DEF TimerFires, chainVars
  <2> HIDE DEF c
  <2>3. << >> \in Seq(Calls)
    OBVIOUS
  <2>4. FewerVotes(todo') /\ \A v \in Live : block'[v] \in {block[v], NoBlock}
    BY <1>3, <1>5, <2>1, <2>2, <2>3, NoneIsFewer
  <2> QED
    BY <1>1, <1>2, <2>2, <2>4, SameJobs, SameLinks
<1>6. ASSUME NEW w \in Live, StartVerify(w) \/ StartCreate(w)
      PROVE  OnceInv'
  <2>1. UNCHANGED <<todo, views, block, voted, log, net>>
    BY <1>6 DEF StartVerify, StartCreate, consensusVars
  <2>2. BlocksMove
    BY <1>0, <1>6, StartVerifyBlocks, StartCreateBlocks
  <2>3. WordsMove /\ WordsAreOnce'
    BY <1>0, <1>2, <2>1, SameLinks, QuietWords
  <2> QED
    BY <1>0, <1>2, <2>1, <2>2, <2>3, SameVotes, NothingCommitted
<1>7. ASSUME NEW w \in Live, SuppressBlock(w)
      PROVE  OnceInv'
  <2>1. /\ UNCHANGED <<todo, views, block, voted, log, net, made>>
        /\ jobs[w] # << >> /\ jobs' = [jobs EXCEPT ![w] = Tail(@)]
    BY <1>7 DEF SuppressBlock, consensusVars, chainVars, HasJob
  <2>2. FewerJobs
    BY <1>0, <1>7, <2>1, JobEnds
  <2> QED
    BY <1>1, <1>2, <2>1, <2>2, SameLinks
<1>8. ASSUME NEW w \in Live, FinishCreate(w) \/ FinishVerify(w)
      PROVE  OnceInv'
  <2>1. PICK b \in Blocks : b = Job(w).block
    BY <1>0, <1>8, FinishBlocks
  <2>2. /\ BlocksMove /\ FewerWords /\ b \notin BlocksVoted(w)
        /\ ProcessValidBlock(w, b)
    BY <1>0, <1>8, <2>1, FinishBlocks
  <2>3. todo = << >> /\ views' = views /\ log' = log
    BY <1>8 DEF FinishCreate, FinishVerify, HasJob, Running
  <2>4. WordsMove /\ WordsAreOnce'
    BY <1>0, <1>8, <2>2, <2>3, VoteWords
  <2>5. \A v \in Live : block'[v] \in {block[v], NoBlock} \/ block'[v] \notin BlocksVoted(v)
    <3>1. block' = block \/ block' = [block EXCEPT ![w] = b]
      BY <2>2 DEF ProcessValidBlock
    <3> QED
      BY <1>0, <2>2, <3>1 DEF TypeOK
  <2>6. VotesGrow
    BY <1>0, <1>8, <2>2, VoteGrows
  <2> QED
    BY <2>2, <2>3, <2>4, <2>5, <2>6, NothingCommitted
<1>9. ASSUME NEW w \in Live, InvalidBlock(w)
      PROVE  OnceInv'
  <2>1. /\ HasJob(w, "verify", TRUE) /\ todo = << >>
        /\ UNCHANGED <<views, voted, log, net, made>>
        /\ jobs[w] # << >> /\ jobs' = [jobs EXCEPT ![w] = Tail(@)]
    BY <1>9 DEF InvalidBlock, chainVars, HasJob, Running
  <2>2. FewerJobs
    BY <1>0, <1>9, <2>1, JobEnds
  <2>3. CASE phase[w] = "BLOCK"
    <3> DEFINE call == Call(w, w, w, VoteMsg(Reject))
    <3>1. call \in Calls
      <4>1. w \in Witness /\ Reject \in Nat
        BY <1>9, Constants DEF Reject
      <4> QED
        BY <1>9, <4>1, CallType
    <3>2. call.body.value = Reject
      BY DEF Call, VoteMsg, Body
    <3>3. NextRoundOf(w, NextRound(rounds[w]), <<call>>)
      BY <1>9, <2>3 DEF InvalidBlock
    <3> HIDE DEF call
    <3>4. << >> \in Seq(Calls) /\ <<call>> \o << >> = <<call>> /\ <<call>> \in Seq(Calls)
      BY <3>1
    <3>5. FewerVotes(<<call>>)
      <4>1. FewerVotes(<<call>> \o << >>)
        BY <3>1, <3>2, <3>4, NoneIsFewer, RoundIsNoVote
      <4> QED
        BY <3>4, <4>1
    <3>6. NextRound(rounds[w]) \in Rounds
      <4>1. rounds[w] \in Rounds /\ 0 \in Nat
        BY <1>0, <1>9 DEF TypeOK
      <4> QED
        BY <4>1, RoundsType
    <3>7. FewerVotes(todo') /\ \A v \in Live : block'[v] \in {block[v], NoBlock}
      BY <1>3, <1>9, <3>3, <3>4, <3>5, <3>6
    <3> QED
      BY <1>1, <1>2, <2>1, <2>2, <3>7, SameLinks
  <2>4. CASE phase[w] # "BLOCK"
    <3>1. todo' = todo /\ block' = block
      BY <1>9, <2>4 DEF InvalidBlock
    <3> QED
      BY <1>1, <1>2, <2>1, <2>2, <3>1, SameLinks
  <2> QED
    BY <2>3, <2>4
<1>10. ASSUME NEW w \in Live, FinishCommit(w)
       PROVE  OnceInv'
  BY <1>1, <1>2, <1>10, SameJobs, SameLinks DEF FinishCommit
<1>11. ASSUME NEW v \in Live, NEW w \in Live, ReceiveBlock(v, w)
       PROVE  OnceInv'
  BY <1>1, <1>2, <1>11, SameJobs, SameLinks DEF ReceiveBlock
<1>12. ASSUME NEW v \in Live, NEW w \in Live, DeliverWord(v, w)
       PROVE  OnceInv'
  <2>1. UNCHANGED <<views, block, voted, log, jobs, made>>
    BY <1>12 DEF DeliverWord, consensusVars, chainVars
  <2>2. WordsMove /\ WordsAreOnce'
    BY <1>0, <1>12, DeliverWords
  <2>3. FewerBlocks
    <3>1. v \in Witness /\ w \in Witness
      BY <1>12, Constants
    <3>2. \A x, y \in Witness : Shortened(net[x][y], net'[x][y])
      BY <1>0, <1>12, <3>1 DEF DeliverWord, Take, TypeOK, Shortened
    <3> QED
      BY <1>0, <3>2, ShorterLinks
  <2>4. BlocksMove
    BY <1>0, <2>1, <2>3, SameJobs, QuietBlocks
  <2> QED
    BY <1>0, <1>2, <2>1, <2>2, <2>4, SameVotes, NothingCommitted
<1>13. ASSUME NEW v \in Live, NEW w \in Live, DeliverBlock(v, w)
       PROVE  OnceInv'
  <2>1. UNCHANGED <<todo, views, block, voted, log>>
    BY <1>13 DEF DeliverBlock, consensusVars
  <2>2. BlocksMove /\ FewerWords
    BY <1>0, <1>13, DeliverBlockBlocks
  <2>3. WordsMove /\ WordsAreOnce'
    BY <1>0, <1>2, <2>1, <2>2, QuietWords
  <2> QED
    BY <1>0, <1>2, <2>1, <2>2, <2>3, SameVotes, NothingCommitted
<1>14. ASSUME NEW w \in Live, NEW v \in Live, Disconnect(w, v)
       PROVE  OnceInv'
  <2>1. UNCHANGED <<todo, views, block, voted, log, jobs, made>>
    BY <1>14 DEF Disconnect, consensusVars, chainVars
  <2>2. \A x, y \in Witness : net'[x][y] = net[x][y] \/ net'[x][y] = << >>
    <3>1. w \in Witness /\ v \in Witness /\ net \in [Witness -> [Witness -> Seq(Envelopes)]]
      BY <1>0, <1>14, Constants DEF TypeOK
    <3> QED
      BY <1>14, <3>1 DEF Disconnect
  <2>3. FewerWords /\ FewerBlocks
    BY <1>0, <2>2, ShorterLinks DEF Shortened
  <2> QED
    BY <1>1, <1>2, <2>1, <2>3, SameJobs
<1>15. ASSUME NEW w \in Live, NEW v \in Live, Reconnect(w, v)
       PROVE  OnceInv'
  BY <1>1, <1>2, <1>15, SameJobs, SameLinks DEF Reconnect, consensusVars, chainVars
<1>16. ASSUME NEW w \in Live, Crash(w)
       PROVE  OnceInv'
  <2>1. UNCHANGED <<todo, voted, log, made>>
    BY <1>16 DEF Crash
  <2>2. \A x, y \in Witness : net'[x][y] = net[x][y] \/ net'[x][y] = << >>
    BY <1>16 DEF Crash
  <2>3. FewerWords /\ FewerBlocks
    BY <1>0, <2>2, ShorterLinks DEF Shortened
  <2>4. /\ \A v \in Live : block'[v] \in {block[v], NoBlock}
        /\ \A v \in Live : views'[v] = views[v] \/ views'[v] = EmptyViews
        /\ \A v \in Live : jobs'[v] = jobs[v] \/ jobs'[v] = << >>
    BY <1>0, <1>16 DEF Crash, TypeOK
  <2>5. FewerSeen
    <3>1. \A j, i \in Witness : \A b \in Blocks : EmptyViews[j][i] # VoteMsg(b)
      BY DEF EmptyViews, NoData, VoteMsg, Body
    <3> QED
      BY <2>4, <3>1 DEF FewerSeen, Seen
  <2>6. FewerJobs
    BY <2>4 DEF FewerJobs, HasJobFor, OneJobFor, Creates, Lists, ListsOnce, ListsNew
  <2> QED
    BY <1>1, <1>2, <2>1, <2>3, <2>4, <2>5, <2>6
<1> QED
  BY <1>4, <1>5, <1>6, <1>7, <1>8, <1>9, <1>10, <1>11, <1>12, <1>13, <1>14, <1>15, <1>16
  DEF Next, Work, Deliver, Fault

LEMMA InitOnce == Init => OnceInv
<1> SUFFICES ASSUME Init
             PROVE  OnceInv
  OBVIOUS
<1>1. CertInv
  BY InitCert
<1>2. /\ \A v \in Live : jobs[v] = << >> /\ log[v] = << >> /\ BlocksVoted(v) = {}
                         /\ views[v] = EmptyViews
      /\ \A u, v \in Witness : net[u][v] = << >>
      /\ todo = << >>
  BY DEF Init, BlocksVoted
<1>3. BlocksArriveOnce
  <2>1. \A b : ~Lists(<< >>, b) /\ ~ListsNew(<< >>, b)
    BY DEF Lists, ListsNew
  <2>2. \A v \in Live : v \in Witness
    BY Constants
  <2> QED
    BY <1>2, <2>1, <2>2, CarriesNone
    DEF BlocksArriveOnce, Arrives, HasJobFor, Creates, NotOnTheWay, OnTheWayOnce
<1>4. WordsComeOnce
  <2>1. \A j, i \in Witness : \A b \in Blocks : EmptyViews[j][i] # VoteMsg(b)
    BY DEF EmptyViews, NoData, VoteMsg, Body
  <2>2. \A v \in Live : v \in Witness
    BY Constants
  <2>3. WordsAreOnce
    BY <1>2, InNone DEF WordsAreOnce
  <2> QED
    BY <1>2, <2>1, <2>2, <2>3, InNone
    DEF WordsComeOnce, OneWay, Past, Heard, Says, Sent, Due, Seen
<1>5. CommittedForGood /\ CommitOnce
  BY <1>2 DEF CommittedForGood, Committed, CommitOnce
<1> QED
  BY <1>1, <1>3, <1>4, <1>5 DEF OnceInv

LEMMA NextOnce ==
  ASSUME MajorityQuorum, OnceInv, [Next]_vars
  PROVE  OnceInv'
<1>0. CertInv /\ CertInv' /\ TypeOK /\ WordsAreOnce
  BY NextCert DEF OnceInv, CertInv, WordsComeOnce
<1>1. CASE Process /\ log' = log
  <2>1. BlocksMove /\ WordsMove /\ WordsAreOnce' /\ VotesGrow
    BY <1>0, <1>1, ProcessBlocks, ProcessWords, SameVotes DEF OnceInv, Process
  <2>2. block' = block \/ \E w \in Live : block' = [block EXCEPT ![w] = NoBlock]
    <3>1. Frame.at \in Live
      BY <1>0, <1>1, NewViewsType DEF Process, Calls
    <3>2. PICK agreed : \/ Hear(Frame.at, agreed) \/ AgreeRound(Frame.at, agreed)
                        \/ AgreeReject(Frame.at, agreed) \/ AgreeBlock(Frame.at, agreed)
      BY <1>1 DEF Process
    <3> QED
      BY <3>1, <3>2 DEF Hear, AgreeRound, AgreeReject, AgreeBlock, NextRoundOf
  <2>3. \A w \in Live : block'[w] \in {block[w], NoBlock}
    BY <1>0, <2>2 DEF TypeOK
  <2> QED
    BY <1>0, <1>1, <2>1, <2>3, NothingCommitted
<1>2. CASE Process /\ log' # log
  BY <1>0, <1>2, Commits
<1>3. CASE Next /\ ~Process
  BY <1>0, <1>3, OnceSteps
<1>4. CASE UNCHANGED vars
  <2>1. UNCHANGED <<todo, net, views, block, voted, log, jobs, made>>
    BY <1>4 DEF vars
  <2>2. FewerSeen /\ FewerVotes(todo') /\ FewerJobs /\ FewerWords /\ FewerBlocks
    BY <2>1, NoneIsFewer, SameJobs, SameLinks DEF FewerSeen, Seen
  <2>3. BlocksMove /\ WordsMove /\ WordsAreOnce' /\ VotesGrow
    BY <1>0, <2>1, <2>2, QuietBlocks, QuietWords, SameVotes
  <2> QED
    BY <1>0, <2>1, <2>3, NothingCommitted
<1> QED
  BY <1>1, <1>2, <1>3, <1>4

\* A witness never hands the same block over twice, whatever is lost, late or repeated and
\* whoever crashes, if quorums are majorities: no vote that is left over, relayed or on its
\* way can complete an agreement a second time (_resetState).
THEOREM CommitsOnce ==
  ASSUME MajorityQuorum
  PROVE  Spec => []CommitOnce
<1>1. OnceInv /\ [Next]_vars => OnceInv'
  BY NextOnce
<1>2. OnceInv => CommitOnce
  BY DEF OnceInv
<1> QED
  BY <1>1, <1>2, InitOnce, PTL DEF Spec

=============================================================================
