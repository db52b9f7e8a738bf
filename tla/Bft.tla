--------------------------------- MODULE Bft ---------------------------------
(***************************************************************************)
(* The consensus of one concilium: BftConsensus (src/node/bftConsensus.js) *)
(* in every witness, and the part of Witness (src/node/witness.js) that    *)
(* feeds it: relaying what it hears, checking a proposed block, creating   *)
(* one, committing one.                                                    *)
(*                                                                         *)
(* A witness is single threaded.  A handler runs to its end, and a message *)
(* it emits is processed by the witness itself before the handler goes on  *)
(* (EventEmitter.emit is a call): todo holds those nested calls, innermost *)
(* first, and nothing else happens until it is empty.  Handlers interact   *)
(* only through FIFO links, so running one at a time loses no behaviour.   *)
(* Work behind an await (executing a block, committing one) is a job of    *)
(* its own, with the timer and messages free to come in between.           *)
(***************************************************************************)
EXTENDS Concilium, TLC

CONSTANTS
  Live,         \* the witnesses that run; the others never answer
  Links,        \* the pairs of witnesses that connect to each other
  SeedOf,       \* SeedOf[b]: the seed when b is the last final block
  Clocked,      \* TRUE: timers count ticks, links are faster than a tick
  Timeouts,     \* consensusTimeouts, in ticks
  MaxBlocks,    \* bound: blocks there are transactions for
  MaxTimeouts,  \* bound: timers that fire (when not Clocked)
  MaxDrops,     \* bound: connections that break
  MaxCrashes    \* bound: witnesses that crash and restart

Phases == {"ROUND_CHANGE", "BLOCK", "VOTE_BLOCK", "COMMIT"}

ASSUME BftAssumption ==
  /\ Live \subseteq Witness /\ Live # {}
  /\ Links \subseteq {{w, v} : w, v \in Live}
  /\ \A w \in Live : {w} \notin Links
  /\ SeedOf \in [0..MaxBlocks -> Nat]
  /\ Clocked \in BOOLEAN
  /\ Timeouts \in [Phases -> Nat \ {0}]
  /\ {MaxBlocks, MaxTimeouts, MaxDrops, MaxCrashes} \subseteq Nat

VARIABLES
  phase,      \* phase[w]: _state
  rounds,     \* rounds[w]: the counters of _concilium
  views,      \* views[w][j][i]: what j told w that i said (_views)
  prevViews,  \* prevViews[w]: the views the last agreement came from
  block,      \* block[w]: _block, NoBlock when undefined
  timer,      \* timer[w]: the stateChange interval
  todo,       \* the nested calls the running handler still has to make
  net,        \* net[w][v]: the messages on the connection from w to v
  up,         \* the connections that are open, as sets of two witnesses
  jobs,       \* jobs[w]: holders of the 'blockExec' lock, in order
  commits,    \* commits[w]: commitBlock handlers that have not finished
  made,       \* made[b]: the maker and the parent of block b
  known,      \* known[w]: the blocks w has accepted
  tip,        \* tip[w]: the parent w builds on and asks others to
  voted,      \* history: the accept votes of w and the round it was in
  log,        \* history: the blocks w committed, with their signers
  faults      \* how much of the bounds is used

consensusVars == <<phase, rounds, views, prevViews, block, timer>>
chainVars == <<commits, made, known, tip>>
vars == <<phase, rounds, views, prevViews, block, timer, todo, net, up,
          jobs, commits, made, known, tip, voted, log, faults>>

-----------------------------------------------------------------------------
(***************************************************************************)
(* Messages.  A body is what a witness says; a link carries it with the    *)
(* witness that said it, so a message whose "of" is not its sender is a    *)
(* MSG_WITNESS_EXPOSE.  Signatures make a body unforgeable.                *)
(***************************************************************************)
Genesis == 0
NoBlock == 0
Reject == 0   \* the 'reject' that stands in a vote for a block hash

Blocks == 1..MaxBlocks

Body(state, value) == [state |-> state, value |-> value]
NextRoundMsg(round) == Body("ROUND_CHANGE", round)
VoteMsg(b) == Body("VOTE_BLOCK", b)
BlockMsg(b) == Body("BLOCK", b)
NoData == Body("", 0)

Bodies == [state : {"ROUND_CHANGE", "VOTE_BLOCK"}, value : Nat]
Envelopes == [of : Witness, body : Bodies \cup [state : {"BLOCK"}, value : Blocks]]

\* A call of processMessage at "at"; one of its own messages is broadcast first.
Call(at, from, of, body) == [at |-> at, from |-> from, of |-> of, body |-> body]
Calls == [at : Live, from : Witness, of : Witness, body : Bodies]

Connected(w, v) == {w, v} \in up

\* broadcastToConnected
Broadcast(w, of, body) ==
  [net EXCEPT ![w] = [v \in Witness |->
     IF Connected(w, v)
       THEN Append(net[w][v], [of |-> of, body |-> body])
       ELSE net[w][v]]]

-----------------------------------------------------------------------------
(***************************************************************************)
(* runConsensus: a value is agreed when a quorum of columns agree on it,   *)
(* and column i agrees on what a quorum of rows say that i said.           *)
(***************************************************************************)
EmptyViews == [j \in Witness |-> [i \in Witness |-> NoData]]

Holders(data, value) == {j \in Witness : data[j] = value}

\* The heaviest value; of equals, the one found first.
Beats(data, value, other) ==
  LET a == WeightOf(Holders(data, value))
      b == WeightOf(Holders(data, other))
  IN  \/ a > b
      \/ /\ a = b
         /\ \E j \in Holders(data, value) :
              \A k \in Holders(data, other) : j <= k

Wins(data, value) ==
  /\ value # NoData
  /\ Holders(data, value) # {}
  /\ WeightOf(Holders(data, value)) >= Quorum
  /\ \A k \in Witness : data[k] # NoData => Beats(data, value, data[k])

Majority(data) ==
  LET winners == {v \in {data[j] : j \in Witness} : Wins(data, v)}
  IN  IF winners = {} THEN NoData ELSE CHOOSE v \in winners : TRUE

Column(vs, i) == [j \in Witness |-> vs[j][i]]

Columns(vs) == [i \in Witness |-> Majority(Column(vs, i))]

\* A concilium of one takes its own word.
RunConsensus(w, vs) ==
  IF N = 1 THEN vs[w][w] ELSE Majority(Columns(vs))

\* _getSignaturesForBlock: who signed b according to the views vs.
Signers(vs, b) == {i \in Witness : Columns(vs)[i] = VoteMsg(b)}

-----------------------------------------------------------------------------
Init ==
  /\ phase = [w \in Live |-> "ROUND_CHANGE"]
  \* initRounds runs in the constructor, before setRoundSeed.
  /\ rounds = [w \in Live |-> [seed |-> SeedOf[Genesis], base |-> 0, local |-> 0]]
  /\ views = [w \in Live |-> EmptyViews]
  /\ prevViews = [w \in Live |-> EmptyViews]
  /\ block = [w \in Live |-> NoBlock]
  \* The witnesses did not start at the same moment.
  /\ timer \in [Live -> {[left |-> l, period |-> Timeouts["ROUND_CHANGE"]] :
                  l \in IF Clocked THEN 1..Timeouts["ROUND_CHANGE"] ELSE {0}}]
  /\ todo = << >>
  /\ net = [w \in Witness |-> [v \in Witness |-> << >>]]
  /\ up = Links
  /\ jobs = [w \in Live |-> << >>]
  /\ commits = [w \in Live |-> << >>]
  /\ made = << >>
  /\ known = [w \in Live |-> {Genesis}]
  /\ tip = [w \in Live |-> Genesis]
  /\ voted = [w \in Live |-> {}]
  /\ log = [w \in Live |-> << >>]
  /\ faults = [timeouts |-> 0, drops |-> 0, crashes |-> 0]

\* tock.adjust: the interval starts over with the timeout of the state.
Restarted(state) ==
  [left |-> IF Clocked THEN Timeouts[state] ELSE 0, period |-> Timeouts[state]]

\* A job that waits for the 'blockExec' lock.
NewJob(kind, b) == [kind |-> kind, block |-> b, running |-> FALSE, ok |-> TRUE]

ShouldPublish(w, proposer) == GetProposerAddress(rounds[w]) = proposer

-----------------------------------------------------------------------------
(***************************************************************************)
(* processMessage, for the innermost call: store the view, and act if it   *)
(* completes an agreement.                                                 *)
(***************************************************************************)
Running == todo # << >>
Frame == Head(todo)

\* The views of the running call.
NewViews ==
  [views[Frame.at] EXCEPT ![Frame.from] = [@ EXCEPT ![Frame.of] = Frame.body]]

\* An emitted message goes out before its sender processes it.
Send ==
  net' = IF Frame.from = Frame.at
           THEN Broadcast(Frame.at, Frame.of, Frame.body) ELSE net

\* Mutant: the views go on into the next agreement.
ResetStateKeepingViews(w) ==
  /\ prevViews' = [prevViews EXCEPT ![w] = NewViews]
  /\ views' = [views EXCEPT ![w] = NewViews]

\* _resetState
ResetState(w) ==
  /\ prevViews' = [prevViews EXCEPT ![w] = NewViews]
  /\ views' = [views EXCEPT ![w] = EmptyViews]

\* _nextRound: w announces the round its counters c have come to.
NextRoundOf(w, c, rest) ==
  /\ block' = [block EXCEPT ![w] = NoBlock]
  /\ phase' = [phase EXCEPT ![w] = "ROUND_CHANGE"]
  /\ rounds' = [rounds EXCEPT ![w] = c]
  /\ todo' = <<Call(w, w, w, NextRoundMsg(GetRound(c)))>> \o rest

\* The view is stored and there is no agreement yet.
Hear(w, agreed) ==
  /\ agreed = NoData
  /\ views' = [views EXCEPT ![w] = NewViews]
  /\ todo' = Tail(todo)
  /\ UNCHANGED <<phase, rounds, prevViews, block, timer, jobs, log, commits>>

\* Agreement on a round: wait for its block, or create it (_roundChangeHandler).
\* 'createBlock' is dropped while a block is being committed.
AgreeRound(w, agreed) ==
  /\ agreed.state = "ROUND_CHANGE"
  /\ ResetState(w)
  /\ LET c == AdjustRound(rounds[w], agreed.value)
     IN  /\ rounds' = [rounds EXCEPT ![w] = c]
         /\ jobs' = IF GetProposerAddress(c) = w /\ commits[w] = << >>
                      THEN [jobs EXCEPT ![w] = Append(@, NewJob("create", NoBlock))]
                      ELSE jobs
  /\ phase' = [phase EXCEPT ![w] = "BLOCK"]
  /\ timer' = [timer EXCEPT ![w] = Restarted("BLOCK")]
  /\ todo' = Tail(todo)
  /\ UNCHANGED <<block, log, commits>>

\* Agreement to reject: on to the next round (_voteStateHandler).
AgreeReject(w, agreed) ==
  /\ agreed = VoteMsg(Reject)
  /\ ResetState(w)
  /\ NextRoundOf(w, NextRound(rounds[w]), Tail(todo))
  /\ timer' = [timer EXCEPT ![w] = Restarted("ROUND_CHANGE")]
  /\ UNCHANGED <<jobs, log, commits>>

\* Mutant: the block is not compared with the one w holds.
AgreeBlockUnseen(w, agreed) ==
  /\ agreed.state = "VOTE_BLOCK" /\ agreed.value # Reject
  /\ ResetState(w)
  /\ phase' = [phase EXCEPT ![w] = "COMMIT"]
  /\ timer' = [timer EXCEPT ![w] = Restarted("COMMIT")]
  /\ todo' = Tail(todo)
  /\ log' = [log EXCEPT ![w] = Append(@, [block |-> agreed.value,
                               signers |-> Signers(NewViews, agreed.value)])]
  /\ commits' = [commits EXCEPT ![w] = Append(@, agreed.value)]
  /\ UNCHANGED <<block, rounds, jobs>>

\* Agreement on a block (_voteStateHandler): commit it, if it is the one w holds
\* and its signatures make a quorum.
AgreeBlock(w, agreed) ==
  /\ agreed.state = "VOTE_BLOCK" /\ agreed.value # Reject
  /\ ResetState(w)
  /\ LET b == agreed.value
         signers == Signers(NewViews, b)
     IN  IF block[w] = b /\ ~(WeightOf(signers) >= Quorum)
           THEN /\ NextRoundOf(w, NextRound(rounds[w]), Tail(todo))
                /\ timer' = [timer EXCEPT ![w] = Restarted("ROUND_CHANGE")]
                /\ UNCHANGED <<log, commits>>
           ELSE /\ phase' = [phase EXCEPT ![w] = "COMMIT"]
                /\ timer' = [timer EXCEPT ![w] = Restarted("COMMIT")]
                /\ todo' = Tail(todo)
                /\ UNCHANGED <<block, rounds>>
                /\ IF block[w] = b
                     THEN /\ log' = [log EXCEPT ![w] =
                               Append(@, [block |-> b, signers |-> signers])]
                          /\ commits' = [commits EXCEPT ![w] = Append(@, b)]
                     ELSE UNCHANGED <<log, commits>>
  /\ UNCHANGED jobs

Process ==
  /\ Running
  /\ Send
  /\ \E agreed \in {RunConsensus(Frame.at, NewViews)} :
       \/ Hear(Frame.at, agreed)
       \/ AgreeRound(Frame.at, agreed)
       \/ AgreeReject(Frame.at, agreed)
       \/ AgreeBlock(Frame.at, agreed)
  /\ UNCHANGED <<up, made, known, tip, voted, faults>>

-----------------------------------------------------------------------------
(***************************************************************************)
(* The timer (_stateChange without agreement).                             *)
(***************************************************************************)
Quiet ==
  /\ ~Running
  /\ \A w, v \in Witness : net[w][v] = << >>
  /\ \A w \in Live : jobs[w] = << >> /\ commits[w] = << >>
  /\ \A w, v \in Live : known[w] = known[v]

\* Time passes only when everything a tick is enough for has been done.
Tick ==
  /\ Clocked /\ Quiet
  /\ \A w \in Live : timer[w].left > 0
  /\ timer' = [w \in Live |-> [timer[w] EXCEPT !.left = @ - 1]]
  /\ UNCHANGED <<phase, rounds, views, prevViews, block, todo, net, up, jobs,
                 voted, log, faults, chainVars>>

\* Mutant: every failure starts the rounds over, like a failed round change.
TimerFiresStartingOver(w) ==
  /\ Clocked /\ ~Running
  /\ timer[w].left = 0
  /\ NextRoundOf(w, InitRounds(rounds[w]), << >>)
  /\ timer' = [timer EXCEPT ![w] =
       IF phase[w] # "ROUND_CHANGE" THEN Restarted("ROUND_CHANGE")
                                    ELSE [@ EXCEPT !.left = timer[w].period]]
  /\ UNCHANGED <<views, prevViews, net, up, jobs, voted, log, faults, chainVars>>

TimerFires(w) ==
  /\ ~Running
  /\ IF Clocked
       THEN timer[w].left = 0 /\ UNCHANGED faults
       ELSE /\ faults.timeouts < MaxTimeouts
            /\ faults' = [faults EXCEPT !.timeouts = @ + 1]
  \* Only a round change that failed starts the rounds over.
  /\ NextRoundOf(w, IF phase[w] = "ROUND_CHANGE" THEN InitRounds(rounds[w])
                                                 ELSE NextRound(rounds[w]), << >>)
  /\ timer' = [timer EXCEPT ![w] =
       IF phase[w] # "ROUND_CHANGE" THEN Restarted("ROUND_CHANGE")
       ELSE [@ EXCEPT !.left = IF Clocked THEN timer[w].period ELSE 0]]
  /\ UNCHANGED <<views, prevViews, net, up, jobs, voted, log, chainVars>>

-----------------------------------------------------------------------------
(***************************************************************************)
(* _incomingWitnessMessage.                                                *)
(***************************************************************************)
Received(v, w) == Head(net[v][w])
Take(v, w) == net' = [net EXCEPT ![v] = [@ EXCEPT ![w] = Tail(net[v][w])]]

\* What v says is exposed to the others first; what v relays is not.
DeliverWord(v, w) ==
  /\ ~Running
  /\ net[v][w] # << >>
  /\ Received(v, w).body.state # "BLOCK"
  /\ Take(v, w)
  /\ LET m == Received(v, w)
         own == Call(w, w, v, m.body)
         his == Call(w, v, m.of, m.body)
     IN  todo' = IF m.of = v THEN <<own, his>> ELSE <<his>>
  /\ UNCHANGED <<consensusVars, up, jobs, voted, log, faults, chainVars>>

\* _processBlockMessage, up to the lock: the turn of the proposer is checked now.
DeliverBlock(v, w) ==
  /\ ~Running
  /\ net[v][w] # << >>
  /\ Received(v, w).body.state = "BLOCK"
  /\ Take(v, w)
  /\ LET m == Received(v, w)
         b == m.body.value
     IN  jobs' = IF ShouldPublish(w, m.of) /\ b \notin known[w]
                   THEN [jobs EXCEPT ![w] = Append(@, NewJob("verify", b))]
                   ELSE jobs
  /\ UNCHANGED <<consensusVars, todo, up, voted, log, faults, chainVars>>

-----------------------------------------------------------------------------
(***************************************************************************)
(* Jobs behind the 'blockExec' lock.  What a job starts from is read when  *)
(* it gets the lock; it ends after the awaits that execute the block.      *)
(***************************************************************************)
Job(w) == Head(jobs[w])
HasJob(w, kind, running) ==
  ~Running /\ jobs[w] # << >> /\ Job(w).kind = kind /\ Job(w).running = running

CompareParents(w, b) == made[b].parent = tip[w]

\* _verifyBlock without signatures, _compareParents, _canExecuteBlock
StartVerify(w) ==
  /\ HasJob(w, "verify", FALSE)
  /\ jobs' = [jobs EXCEPT ![w] = <<[Job(w) EXCEPT !.running = TRUE,
                  !.ok = CompareParents(w, Job(w).block)]>> \o Tail(@)]
  /\ UNCHANGED <<consensusVars, todo, net, up, voted, log, faults, chainVars>>

\* _createBlock: with no transactions left the block would be empty.
StartCreate(w) ==
  /\ HasJob(w, "create", FALSE)
  /\ Len(made) < MaxBlocks
  /\ made' = Append(made, [maker |-> w, parent |-> tip[w]])
  /\ jobs' = [jobs EXCEPT ![w] = <<[Job(w) EXCEPT !.running = TRUE,
                  !.block = Len(made) + 1]>> \o Tail(@)]
  /\ UNCHANGED <<consensusVars, todo, net, up, commits, known, tip, voted, log,
                 faults>>

\* _suppressedBlockHandler
SuppressBlock(w) ==
  /\ HasJob(w, "create", FALSE)
  /\ Len(made) = MaxBlocks
  /\ jobs' = [jobs EXCEPT ![w] = Tail(@)]
  /\ UNCHANGED <<consensusVars, todo, net, up, voted, log, faults, chainVars>>

\* processValidBlock: only a witness that waits for a block takes it.  The timer
\* of BLOCK goes on running.
ProcessValidBlock(w, b) ==
  IF phase[w] = "BLOCK"
    THEN /\ block' = [block EXCEPT ![w] = b]
         /\ phase' = [phase EXCEPT ![w] = "VOTE_BLOCK"]
         /\ todo' = <<Call(w, w, w, VoteMsg(b))>>
         /\ voted' = [voted EXCEPT ![w] = @ \cup
                        {[block |-> b, round |-> GetRound(rounds[w])]}]
    ELSE UNCHANGED <<block, phase, todo, voted>>

FinishCreate(w) ==
  /\ HasJob(w, "create", TRUE)
  /\ net' = Broadcast(w, w, BlockMsg(Job(w).block))
  /\ ProcessValidBlock(w, Job(w).block)
  /\ jobs' = [jobs EXCEPT ![w] = Tail(@)]
  /\ UNCHANGED <<rounds, views, prevViews, timer, up, log, faults, chainVars>>

FinishVerify(w) ==
  /\ HasJob(w, "verify", TRUE)
  /\ Job(w).ok
  /\ ProcessValidBlock(w, Job(w).block)
  /\ jobs' = [jobs EXCEPT ![w] = Tail(@)]
  /\ UNCHANGED <<rounds, views, prevViews, timer, net, up, log, faults, chainVars>>

\* invalidBlock: announces the next round, then votes to reject.
InvalidBlock(w) ==
  /\ HasJob(w, "verify", TRUE)
  /\ ~Job(w).ok
  /\ IF phase[w] = "BLOCK"
       THEN NextRoundOf(w, NextRound(rounds[w]),
                        <<Call(w, w, w, VoteMsg(Reject))>>)
       ELSE UNCHANGED <<block, phase, rounds, todo>>
  /\ jobs' = [jobs EXCEPT ![w] = Tail(@)]
  /\ UNCHANGED <<views, prevViews, timer, net, up, voted, log, faults, chainVars>>

-----------------------------------------------------------------------------
(***************************************************************************)
(* Accepted blocks.  The node's block pipeline is abstracted to: a block   *)
(* is accepted once, after its parent, by the committing witness itself or *)
(* from one that has it.  A tip moves along its own branch only.           *)
(***************************************************************************)
\* Mutant: the parent to build on is not brought up to date.
AcceptBehind(w, b) ==
  /\ known' = [known EXCEPT ![w] = @ \cup {b}]
  /\ UNCHANGED <<tip, rounds>>

Accept(w, b) ==
  /\ known' = [known EXCEPT ![w] = @ \cup {b}]
  /\ tip' = [tip EXCEPT ![w] = IF made[b].parent = tip[w] THEN b ELSE @]
  \* _processFinalityResults: a new last final block, a new seed
  /\ rounds' = [rounds EXCEPT ![w] = ChangeSeed(@, SeedOf[tip'[w]])]

\* The 'commitBlock' handler gets its lock and ends.
FinishCommit(w) ==
  /\ ~Running
  /\ commits[w] # << >>
  /\ commits' = [commits EXCEPT ![w] = Tail(@)]
  /\ IF Head(commits[w]) \in known[w]
       THEN UNCHANGED <<known, tip, rounds>>
       ELSE Accept(w, Head(commits[w]))
  /\ UNCHANGED <<phase, views, prevViews, block, timer, todo, net, up, jobs,
                 made, voted, log, faults>>

\* The signatures that came with b weigh a quorum: those of a witness that committed it.
VerifyBlockSignatures(b) ==
  \E w \in Live : \E k \in DOMAIN log[w] :
    log[w][k].block = b /\ WeightOf(log[w][k].signers) >= Quorum

\* w receives a block that v announced to its neighbours (_informNeighbors).
ReceiveBlock(v, w) ==
  /\ ~Running
  /\ Connected(v, w)
  /\ \E b \in known[v] \ known[w] :
       /\ made[b].parent \in known[w]
       /\ VerifyBlockSignatures(b)
       /\ Accept(w, b)
  /\ UNCHANGED <<phase, views, prevViews, block, timer, todo, net, up, jobs,
                 commits, made, voted, log, faults>>

-----------------------------------------------------------------------------
(***************************************************************************)
(* Faults.                                                                 *)
(***************************************************************************)
\* A connection breaks: what is on it is lost, and what is said until it is
\* open again is not sent.
Disconnect(w, v) ==
  /\ ~Running
  /\ Connected(w, v)
  /\ faults.drops < MaxDrops
  /\ faults' = [faults EXCEPT !.drops = @ + 1]
  /\ up' = up \ {{w, v}}
  /\ net' = [net EXCEPT ![w] = [@ EXCEPT ![v] = << >>],
                        ![v] = [@ EXCEPT ![w] = << >>]]
  /\ UNCHANGED <<consensusVars, todo, jobs, voted, log, chainVars>>

\* _reconnectPeers, start
Reconnect(w, v) ==
  /\ ~Running
  /\ {w, v} \in Links \ up
  /\ up' = up \cup {{w, v}}
  /\ UNCHANGED <<consensusVars, todo, net, jobs, voted, log, faults, chainVars>>

\* The process of w dies and comes back: only its accepted blocks survive.
Crash(w) ==
  /\ ~Running
  /\ faults.crashes < MaxCrashes
  /\ faults' = [faults EXCEPT !.crashes = @ + 1]
  /\ phase' = [phase EXCEPT ![w] = "ROUND_CHANGE"]
  /\ rounds' = [rounds EXCEPT ![w] =
                  [seed |-> SeedOf[tip[w]], base |-> 0, local |-> 0]]
  /\ views' = [views EXCEPT ![w] = EmptyViews]
  /\ prevViews' = [prevViews EXCEPT ![w] = EmptyViews]
  /\ block' = [block EXCEPT ![w] = NoBlock]
  /\ timer' = [timer EXCEPT ![w] = Restarted("ROUND_CHANGE")]
  /\ jobs' = [jobs EXCEPT ![w] = << >>]
  /\ commits' = [commits EXCEPT ![w] = << >>]
  /\ up' = {pair \in up : w \notin pair}
  /\ net' = [v \in Witness |-> [x \in Witness |->
               IF w \in {v, x} THEN << >> ELSE net[v][x]]]
  /\ UNCHANGED <<todo, made, known, tip, voted, log>>

-----------------------------------------------------------------------------
Work(w) ==
  \/ StartVerify(w) \/ FinishVerify(w) \/ InvalidBlock(w)
  \/ StartCreate(w) \/ FinishCreate(w) \/ SuppressBlock(w)
  \/ FinishCommit(w)

Deliver(v, w) == DeliverWord(v, w) \/ DeliverBlock(v, w) \/ ReceiveBlock(v, w)

Fault(w) == Crash(w) \/ \E v \in Live : Disconnect(w, v) \/ Reconnect(w, v)

Next ==
  \/ Process
  \/ Tick
  \/ \E w \in Live : TimerFires(w) \/ Work(w) \/ Fault(w)
  \/ \E v, w \in Live : Deliver(v, w)

Spec == Init /\ [][Next]_vars

Fairness ==
  /\ WF_vars(Process)
  /\ WF_vars(Tick)
  /\ \A w \in Live : WF_vars(TimerFires(w)) /\ WF_vars(Work(w))
  \* Strong: a witness that runs a handler can not reconnect at that instant.
  /\ \A v, w \in Live : WF_vars(Deliver(v, w)) /\ SF_vars(Reconnect(v, w))

FairSpec == Spec /\ Fairness

-----------------------------------------------------------------------------
(***************************************************************************)
(* Properties.                                                             *)
(***************************************************************************)
TimerType == [left : Nat, period : Nat]
\* A job that creates a block has none before it runs.
JobType ==
  [kind : {"create", "verify"}, block : Blocks, running : BOOLEAN, ok : BOOLEAN]
    \cup [kind : {"create"}, block : {NoBlock}, running : {FALSE}, ok : {TRUE}]
ViewsType == [Witness -> [Witness -> Bodies \cup {NoData}]]

\* Every variable of the model, the state of BftConsensus and Witness, has its type.
TypeOK ==
  /\ phase \in [Live -> Phases]
  /\ rounds \in [Live -> Rounds]
  /\ views \in [Live -> ViewsType]
  /\ prevViews \in [Live -> ViewsType]
  /\ block \in [Live -> Blocks \cup {NoBlock}]
  /\ timer \in [Live -> TimerType]
  /\ todo \in Seq(Calls)
  /\ net \in [Witness -> [Witness -> Seq(Envelopes)]]
  /\ up \subseteq Links
  /\ jobs \in [Live -> Seq(JobType)]
  /\ commits \in [Live -> Seq(Blocks)]
  /\ made \in Seq([maker : Live, parent : 0..MaxBlocks]) /\ Len(made) <= MaxBlocks
  /\ known \in [Live -> SUBSET (0..MaxBlocks)]
  /\ tip \in [Live -> 0..MaxBlocks]
  /\ voted \in [Live -> SUBSET [block : Blocks, round : Nat]]
  /\ log \in [Live -> Seq([block : Blocks, signers : SUBSET Witness])]
  /\ faults \in [timeouts : Nat, drops : Nat, crashes : Nat]

BlocksVoted(w) == {v.block : v \in voted[w]}

\* The blocks w has committed.
Committed(w) == {log[w][k].block : k \in DOMAIN log[w]}

\* A block that BftConsensus hands over to be committed carries the signatures of
\* a quorum, each of a witness that did vote for that block, and the committing
\* witness has voted for it too - whatever was lost, late, relayed or left over
\* from earlier rounds, and whoever crashed (_getSignaturesForBlock).
CommitCertified ==
  \A w \in Live : \A k \in DOMAIN log[w] :
    LET c == log[w][k]
    IN  /\ WeightOf(c.signers) >= Quorum
        /\ \A i \in c.signers : i \in Live /\ c.block \in BlocksVoted(i)
        /\ c.block \in BlocksVoted(w)

\* A witness hands a block over once: the votes and relays that come in after the
\* agreement, or were left over when it was reached, never make a second one
\* (_resetState).
CommitOnce ==
  \A w \in Live : \A k, l \in DOMAIN log[w] :
    log[w][k].block = log[w][l].block => k = l

\* The witnesses of a concilium never commit two blocks on one parent.  PatchDB.merge
\* asserts it of the patches of one concilium ("It seems we have unexpected fork!").
NoFork ==
  \A w, v \in Live : \A b \in Committed(w), c \in Committed(v) :
    made[b].parent = made[c].parent => b = c

\* A vote goes to a block of the proposer whose turn it is in the round the voter
\* is in when it votes (_processBlockMessage: "check proposer").
VotesFollowTurn ==
  \A w \in Live : \A v \in voted[w] : made[v.block].maker = ProposerOf(v.round)

\* A witness that waits for a block waits in the round that was agreed on
\* (_roundChangeHandler: "adjust roundNo").
RoundAsAgreed ==
  \A w \in Live : phase[w] = "BLOCK" =>
    GetRound(rounds[w]) = RunConsensus(w, prevViews[w]).value

\* When links are faster than timers and no message is lost, every block there is
\* work for is proposed, committed and accepted by all that run, however far apart
\* they started and whoever is dead: no round change, failed round or dead proposer
\* blocks the concilium for ever.
Progress == <>(\A w \in Live : known[w] = 0..MaxBlocks)

(***************************************************************************)
(* What a concilium promises, of the blocks voted for and committed.       *)
(***************************************************************************)
Promise == INSTANCE Ballot WITH
             Voters <- Live, Proposals <- Blocks,
             Quorums <- {S \in SUBSET Live : WeightOf(S) >= Quorum},
             votes <- [w \in Live |-> BlocksVoted(w)], ledger <- log

\* The steps of the consensus, seen as votes and commits, are those of Ballot.
KeepsPromise == Promise!BallotSpec

=============================================================================
