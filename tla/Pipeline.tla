------------------------------- MODULE Pipeline -------------------------------
(***************************************************************************)
(* How a node gets the blocks it lacks and executes them: the handlers of  *)
(* MSG_INV, MSG_GET_BLOCKS and MSG_BLOCK, the worker and the cache of      *)
(* requests (src/node/node.js, src/node/requestsCache.js).                 *)
(*                                                                         *)
(* Peers run the same code; of them only what they answer is here.  A      *)
(* handler is one step but for the execution of a block, which is long:    *)
(* reading the storage is quick beside it and beside a message.  Messages  *)
(* of a peer may be handled in any order.  What becomes final, and which   *)
(* blocks are rolled back then, is not here (Finality).                    *)
(***************************************************************************)
EXTENDS Integers, FiniteSetsExt

CONSTANTS
  Peers,
  Last,            \* the blocks are 0 (Genesis) to Last
  Parents,         \* Parents[b]: lower numbers
  Invalid,         \* the blocks that fail wherever they are executed
  Contested,       \* those that may fail here, for what the node has of others
  FirstHeld,       \* FirstHeld[p]: what a peer holds at the start
  MaxBlocksInv,    \* MAX_BLOCKS_INV
  MaxSingles,      \* singleBlockRequested: so many, and a peer is taken to be ahead
  MaxFaults        \* bound: connections lost and requests given up before the answer

Blocks == 0..Last
Genesis == 0

Faulty == Invalid \cup Contested

ASSUME PipelineAssumption ==
  /\ {Last, MaxFaults} \subseteq Nat
  /\ {MaxBlocksInv, MaxSingles} \subseteq Nat \ {0}
  /\ Parents \in [Blocks -> SUBSET Blocks]
  /\ Parents[Genesis] = {}
  /\ \A b \in Blocks \ {Genesis} : Parents[b] # {} /\ Parents[b] \subseteq 0..(b - 1)
  /\ Faulty \subseteq Blocks \ {Genesis}
  /\ FirstHeld \in [Peers -> SUBSET Blocks]
  /\ \A p \in Peers : \A b \in FirstHeld[p] : Parents[b] \subseteq FirstHeld[p]

VARIABLES
  info,        \* _mainDag: what is known of a block, besides that it is executed
  executed,    \* the blocks that are pending or final
  toExec,      \* _mapBlocksToExec: block -> the peer it is due to
  unknown,     \* _mapUnknownBlocks: block -> the peer that may have it
  executing,   \* executions under way, or waiting for the 'blockExec' key
  working,     \* the worker is in its loop over toExec
  requested,   \* _requestCache: the requests that are not outdated
  connected,   \* the peers that are connected
  ahead,       \* _bPossiblyAhead
  asking,      \* isGetBlocksSent
  singles,     \* _nCountSingleBlocks
  blamed       \* the peers that misbehave was called on
\* The peers and what is under way between them and the node.
VARIABLES
  holds,       \* holds[p]: the blocks in the graph of a peer
  queries,     \* MSG_GET_BLOCKS
  invs,        \* MSG_INV
  asked,       \* MSG_GET_DATA, or the MSG_BLOCK that answers it
  late,        \* blocks whose request was given up before the answer came
  disconnects

blockVars == <<info, executed, toExec, unknown, executing, working>>
peerVars == <<connected, ahead, asking, singles, blamed>>
netVars == <<holds, queries, invs, asked, late, disconnects>>
vars == <<blockVars, requested, peerVars, netVars>>

Init ==
  /\ info = [b \in Blocks |-> "none"] /\ executed = {}
  /\ toExec = << >> /\ unknown = << >>
  /\ executing = {} /\ working = FALSE
  /\ requested = {}
  /\ connected = {} /\ ahead = {} /\ asking = {} /\ blamed = {}
  /\ singles = [p \in Peers |-> 0]
  /\ holds = FirstHeld
  /\ queries = {} /\ invs = {} /\ asked = {} /\ late = {}
  /\ disconnects = 0

-----------------------------------------------------------------------------
(***************************************************************************)
(* What a node answers to MSG_GET_BLOCKS.                                  *)
(***************************************************************************)
Height[b \in Blocks] ==
  IF b = Genesis THEN 0 ELSE 1 + Max({Height[a] : a \in Parents[b]})

DirectChildren(S, B) ==
  {c \in S : \E b \in Parents[c] \cap B : Height[c] = Height[b] + 1}

\* _getBlocksFromLastKnown in the graph S: level after level until there are
\* MAX_BLOCKS_INV blocks; the last level may be cut one after them.
BlocksFromLastKnown(S, hashes) ==
  LET base == IF hashes \cap S = {} THEN {Genesis} ELSE hashes \cap S
      start == IF hashes \cap S = {} THEN {Genesis} ELSE {}
      upto[i \in 0..(Last + 2)] ==
        IF i = 0 THEN start
        ELSE upto[i - 1] \cup (DirectChildren(S, base \cup upto[i - 1]) \ base)
      n == CHOOSE i \in 1..(Last + 2) :
             /\ \/ Cardinality(upto[i]) >= MaxBlocksInv
                \/ upto[i] = upto[i - 1]
             /\ \A j \in 1..(i - 1) : /\ Cardinality(upto[j]) < MaxBlocksInv
                                      /\ upto[j] # upto[j - 1]
      room == MaxBlocksInv + 1 - Cardinality(upto[n - 1])
  IN  IF Cardinality(upto[n]) <= MaxBlocksInv + 1 THEN {upto[n]}
      ELSE {upto[n - 1] \cup T : T \in kSubset(room, upto[n] \ upto[n - 1])}

-----------------------------------------------------------------------------
(***************************************************************************)
(* What the node asks for.                                                 *)
(***************************************************************************)
\* The tips of the graph of pending blocks and, for the last applied blocks, those
\* right under them; what is applied is checkFinality's to say.
LastKnown ==
  LET tips == {b \in executed : \A c \in executed : b \notin Parents[c]}
  IN  tips \cup UNION {Parents[b] : b \in tips}

GetBlocks(P) == [peer : P, hashes : {LastKnown}]
GetData(p, B) == {p} \X B

Connected(p) == p \in connected

\* _isInitialBlockLoading
InitialLoading == ahead \cap connected # {}

Known(b) == info[b] # "none"

\* Mutant: a block is counted twice.
CountTwice(P) ==
  [p \in Peers |-> IF p \in P /\ singles[p] <= MaxSingles THEN singles[p] + 2
                   ELSE singles[p]]

\* singleBlockRequested, for every peer of P
CountSingles(P) ==
  [p \in Peers |-> IF p \in P /\ singles[p] <= MaxSingles THEN singles[p] + 1
                   ELSE singles[p]]

\* The end of the handshake, _handlePeerList: the node asks for Genesis or for blocks.
\* What it thought of the peer before stays.
Connect(p) ==
  /\ ~Connected(p)
  /\ connected' = connected \cup {p}
  /\ IF Known(Genesis)
       THEN /\ queries' = queries \cup GetBlocks({p})
            /\ asking' = asking \cup {p}
            /\ singles' = [singles EXCEPT ![p] = 0]
            /\ UNCHANGED <<asked, requested, ahead>>
       ELSE /\ asked' = asked \cup GetData(p, {Genesis} \ requested)
            /\ requested' = requested \cup {Genesis}
            /\ ahead' = ahead \cup {p}
            /\ UNCHANGED <<queries, asking, singles>>
  /\ UNCHANGED <<blockVars, blamed, holds, invs, late, disconnects>>

\* Mutant: does not look whether a hash is requested.
HandleInvTwice(p) ==
  \E m \in {i \in invs : i.peer = p} :
    LET new == {b \in m.hashes : ~Known(b)}
    IN  /\ asked' = asked \cup GetData(p, new)
        /\ requested' = requested \cup new
        /\ invs' = invs \ {m}
        /\ UNCHANGED <<blockVars, connected, ahead, asking, singles, blamed,
                       holds, queries, late, disconnects>>

\* Mutant: a peer that is ahead stays so.
HandleInvNeverEven(p) ==
  \E m \in {i \in invs : i.peer = p} :
    LET new == {b \in m.hashes : b \notin requested /\ ~Known(b)}
    IN  /\ asked' = asked \cup GetData(p, new)
        /\ requested' = requested \cup new
        /\ invs' = invs \ {m}
        /\ asking' = asking \ {p}
        /\ ahead' = IF p \in asking /\ Cardinality(new) > 1 THEN ahead \cup {p} ELSE ahead
        /\ UNCHANGED <<blockVars, connected, singles, blamed, holds, queries, late,
                       disconnects>>

\* _handleInvMessage
HandleInv(p) ==
  \E m \in {i \in invs : i.peer = p} :
    LET new == {b \in m.hashes : b \notin requested /\ ~Known(b)}
        counted == CountSingles(IF Cardinality(new) = 1 THEN {p} ELSE {})
        isAhead == \/ Cardinality(new) > 1
                   \/ Cardinality(new) = 1 /\ counted[p] > MaxSingles
    IN  /\ asked' = asked \cup GetData(p, new)
        /\ requested' = requested \cup new
        /\ invs' = invs \ {m}
        /\ IF p \in asking
             THEN /\ asking' = asking \ {p}
                  /\ ahead' = IF isAhead THEN ahead \cup {p} ELSE ahead \ {p}
                  /\ singles' = counted
             ELSE UNCHANGED <<asking, ahead, singles>>
        /\ UNCHANGED <<blockVars, connected, blamed, holds, queries, late, disconnects>>

-----------------------------------------------------------------------------
(***************************************************************************)
(* Blocks.                                                                 *)
(***************************************************************************)
\* The blocks of B are due to p, the others to whom they were.
Due(f, B, p) == [b \in DOMAIN f \cup B |-> IF b \in B THEN p ELSE f[b]]
Without(f, b) == [c \in DOMAIN f \ {b} |-> f[c]]

\* _queueBlockExec of every block of B, which overrides the peer
Queued(queue, B, p, of) == Due(queue, {b \in B : of[b] # "bad"}, p)

\* _processBlock of b for the peer p, with what is known of the blocks and which are
\* missing; the worker takes b off its queue when it is done with it.
Refuse(b, p, by, of) ==
  /\ \E a \in Parents[b] : of[a] = "bad"
  /\ info' = [of EXCEPT ![b] = "bad"]
  /\ toExec' = IF by = "worker" THEN Without(toExec, b) ELSE toExec
  /\ blamed' = IF by = "worker" THEN blamed ELSE blamed \cup {p}
  /\ UNCHANGED executing

Await(b, p, by, of, missing) ==
  LET unexecuted == Parents[b] \ executed
      queue == Queued(toExec, {b}, p, of)
      lacking == {a \in unexecuted : a \notin DOMAIN queue /\ of[a] = "none"}
      longer == Queued(queue, unexecuted \ lacking, p, of)
  IN  /\ \E a \in unexecuted : of[a] # "bad"
      /\ info' = of
      /\ toExec' = IF by = "worker" THEN Without(longer, b) ELSE longer
      /\ unknown' = Due(missing, lacking, p)
      /\ UNCHANGED <<executing, blamed>>

\* Mutant: one parent that is executed is enough.
StartExecEarly(b, p, by, of) ==
  /\ Parents[b] \cap executed # {} \/ b = Genesis
  /\ \A a \in Parents[b] : of[a] # "bad"
  /\ info' = of
  /\ executing' = executing \cup {[block |-> b, peer |-> p, by |-> by]}
  /\ UNCHANGED <<toExec, blamed>>

StartExec(b, p, by, of) ==
  /\ Parents[b] \subseteq executed /\ \A a \in Parents[b] : of[a] # "bad"
  /\ info' = of
  /\ IF b \in executed
       THEN /\ toExec' = IF by = "worker" THEN Without(toExec, b) ELSE toExec
            /\ UNCHANGED executing
       ELSE /\ executing' = executing \cup {[block |-> b, peer |-> p, by |-> by]}
            /\ UNCHANGED toExec
  /\ UNCHANGED blamed

ProcessBlock(b, p, by, of, missing) ==
  \/ Refuse(b, p, by, of) /\ unknown' = missing
  \/ StartExec(b, p, by, of) /\ unknown' = missing
  \/ Await(b, p, by, of, missing)

\* _verifyBlock throws before the request is done.
FailVerification(b, p) ==
  /\ b \in Invalid
  /\ info' = [info EXCEPT ![b] = "bad"]
  /\ blamed' = blamed \cup {p}
  /\ UNCHANGED <<requested, toExec, unknown, executing>>

\* _handleBlockMessage, _handleArrivedBlock: the block is stored, then processed.
HandleBlock(p) ==
  \E b \in {a \in holds[p] : <<p, a>> \in asked} :
    /\ asked' = asked \ {<<p, b>>}
    /\ IF b \notin requested
         THEN /\ blamed' = blamed \cup {p}
              /\ UNCHANGED <<blockVars, requested>>
       ELSE IF Known(b) THEN UNCHANGED <<blockVars, requested, blamed>>
       ELSE /\ \/ FailVerification(b, p)
               \/ /\ requested' = requested \ {b}
                  /\ ProcessBlock(b, p, "net", [info EXCEPT ![b] = "inFlight"],
                                  Without(unknown, b))
            /\ UNCHANGED <<executed, working>>
    /\ UNCHANGED <<connected, ahead, asking, singles,
                   holds, queries, invs, late, disconnects>>

\* How an execution may end.  Somebody else was quicker, and there is no patch; or
\* _execBlock throws, or _acceptBlock, when it has added the block already: in the
\* finality of it, or on the way to the disk.
Results == {"accepted", "failed", "addedAndFailed"}

Outcomes(b) ==
  {o \in Results :
     /\ o # "accepted" => b \in Faulty \ executed
     /\ b \in Invalid \ executed => o = "failed"}

\* Mutant: does not queue what stands on the block.
FinishExecAlone ==
  \E j \in executing : \E o \in Outcomes(j.block) :
    LET b == j.block
    IN  /\ executing' = executing \ {j}
        /\ executed' = IF o = "failed" THEN executed ELSE executed \cup {b}
        /\ info' = IF o = "accepted" THEN info ELSE [info EXCEPT ![b] = "bad"]
        /\ blamed' = IF o = "accepted" THEN blamed ELSE blamed \cup {j.peer}
        /\ toExec' = IF j.by = "worker" THEN Without(toExec, b) ELSE toExec
        /\ UNCHANGED <<unknown, working, requested, connected, ahead, asking, singles,
                       netVars>>

\* The end of _blockProcessorExecBlock; whatever came of it, what stands on the block
\* is queued.
FinishExec ==
  \E j \in executing : \E o \in Outcomes(j.block) :
    LET b == j.block
        children == {c \in Blocks : b \in Parents[c] /\ Known(c)}
        queue == Queued(toExec, children, j.peer, info)
    IN  /\ executing' = executing \ {j}
        /\ executed' = IF o = "failed" THEN executed ELSE executed \cup {b}
        /\ info' = IF o = "accepted" THEN info ELSE [info EXCEPT ![b] = "bad"]
        /\ blamed' = IF o = "accepted" THEN blamed ELSE blamed \cup {j.peer}
        /\ toExec' = IF j.by = "worker" THEN Without(queue, b) ELSE queue
        /\ UNCHANGED <<unknown, working, requested, connected, ahead, asking, singles,
                       netVars>>

-----------------------------------------------------------------------------
(***************************************************************************)
(* The worker, _blockProcessor.                                            *)
(***************************************************************************)
AtWork == \E j \in executing : j.by = "worker"

\* It does not start while a block is being executed.
StartWorker ==
  /\ ~working /\ executing = {} /\ DOMAIN toExec # {}
  /\ working' = TRUE
  /\ UNCHANGED <<info, executed, toExec, unknown, executing, requested, peerVars,
                 netVars>>

WorkOff ==
  /\ working /\ ~AtWork
  /\ \E b \in DOMAIN toExec :
       IF info[b] = "bad"
         THEN /\ toExec' = Without(toExec, b)
              /\ UNCHANGED <<info, unknown, executing, blamed>>
         ELSE ProcessBlock(b, toExec[b], "worker", info, unknown)
  /\ UNCHANGED <<executed, working, requested, connected, ahead, asking, singles,
                 netVars>>

\* Mutant: also what is requested.
ToRequestAgain == {b \in DOMAIN unknown : ~Known(b)}

\* _createMapBlockPeer
ToRequest == {b \in DOMAIN unknown : b \notin requested /\ ~Known(b)}

OfAhead == {b \in ToRequest : unknown[b] \in ahead}

\* Of what is due to one peer, MAX_BLOCKS_INV blocks are requested at once.
Batches ==
  {B \in SUBSET (ToRequest \ OfAhead) :
     \A p \in Peers :
       LET of(S) == Cardinality({b \in S : unknown[b] = p})
       IN  of(B) = Min({MaxBlocksInv, of(ToRequest \ OfAhead)})}

\* _queryPeerForRestOfBlocks: all peers that are ahead, not the one it is called for
QueryPeers(P) ==
  /\ queries' = queries \cup GetBlocks(P)
  /\ asking' = asking \cup P

\* _sendMsgGetDataToPeers: somebody else is asked for a peer that has gone.
RequestBlocks(P) ==
  \E B \in Batches, other \in connected :
    LET to(b) == IF Connected(unknown[b]) THEN unknown[b] ELSE other
        reset == [p \in Peers |-> IF p \in P THEN 0 ELSE singles[p]]
        targets == {to(b) : b \in B}
    IN  /\ asked' = asked \cup {<<to(b), b>> : b \in B}
        /\ requested' = requested \cup B
        /\ singles' = [p \in Peers |-> IF p \in targets /\ reset[p] <= MaxSingles
                                         THEN reset[p] + 1 ELSE reset[p]]
        /\ ahead' = ahead \cup {p \in targets : singles'[p] > MaxSingles}

\* Mutant: leaves peers that are ahead alone when blocks are unknown.
AskForUnknown ==
  /\ IF working THEN ~AtWork ELSE executing = {}
  /\ DOMAIN toExec = {}
  /\ working' = FALSE
  /\ QueryPeers(IF ~working /\ requested = {} /\ DOMAIN unknown = {}
                  THEN (ahead \cap connected) \ asking ELSE {})
  /\ IF connected = {}
       THEN UNCHANGED <<asked, requested, singles, ahead>>
       ELSE RequestBlocks({})
  /\ UNCHANGED <<info, executed, toExec, unknown, executing, connected, blamed,
                 holds, invs, late, disconnects>>

\* The queue is empty: with no request under way, or for blocks a peer that is ahead
\* must have, the worker asks for more blocks, then for the unknown ones.
AskForBlocks ==
  LET more == (~working /\ requested = {}) \/ OfAhead # {}
      P == IF more THEN (ahead \cap connected) \ asking ELSE {}
  IN  /\ IF working THEN ~AtWork ELSE executing = {}
      /\ DOMAIN toExec = {}
      /\ working' = FALSE
      /\ QueryPeers(P)
      /\ IF connected = {}
           THEN UNCHANGED <<asked, requested, singles, ahead>>
           ELSE RequestBlocks(P)
      /\ UNCHANGED <<info, executed, toExec, unknown, executing, connected, blamed,
                     holds, invs, late, disconnects>>

-----------------------------------------------------------------------------
(***************************************************************************)
(* The peers and the network.                                              *)
(***************************************************************************)
\* A peer executes a block and informs its neighbours.
PeerAccepts(p) ==
  /\ \E b \in Blocks \ (holds[p] \cup Invalid) :
       /\ Parents[b] \subseteq holds[p] \ Invalid
       /\ holds' = [holds EXCEPT ![p] = @ \cup {b}]
       /\ invs' = IF Connected(p) THEN invs \cup [peer : {p}, hashes : {{b}}] ELSE invs
  /\ UNCHANGED <<blockVars, requested, peerVars, queries, asked, late, disconnects>>

\* _handleGetBlocksMessage
PeerAnswers(p) ==
  /\ \E q \in {m \in queries : m.peer = p} :
       \E B \in BlocksFromLastKnown(holds[p], q.hashes) :
         /\ queries' = queries \ {q}
         /\ invs' = invs \cup [peer : {p}, hashes : {B}]
  /\ UNCHANGED <<blockVars, requested, peerVars, holds, asked, late, disconnects>>

\* _handleGetDataMessage: it has found the block bad and thrown it away, or never had it.
PeerHasNot(p) ==
  /\ \E b \in Blocks : /\ <<p, b>> \in asked
                       /\ b \in Invalid \/ b \notin holds[p]
                       /\ asked' = asked \ {<<p, b>>}
  /\ UNCHANGED <<blockVars, requested, peerVars, holds, queries, invs, late, disconnects>>

\* INV_REQUEST_HOLDOFF has passed: nothing is under way any more, or it is late.
UnderWay(b) == \E p \in Peers : <<p, b>> \in asked

GiveUpRequest ==
  /\ \E b \in requested :
       /\ UnderWay(b) => disconnects + Cardinality(late) < MaxFaults
       /\ requested' = requested \ {b}
       /\ late' = IF UnderWay(b) THEN late \cup {b} ELSE late
  /\ UNCHANGED <<blockVars, peerVars, holds, queries, invs, asked, disconnects>>

GiveUpQuery(p) ==
  /\ p \in asking /\ \A m \in queries \cup invs : m.peer # p
  /\ asking' = asking \ {p}
  /\ UNCHANGED <<blockVars, requested, connected, ahead, singles, blamed, netVars>>

Disconnect(p) ==
  /\ Connected(p) /\ disconnects + Cardinality(late) < MaxFaults
  /\ connected' = connected \ {p}
  /\ singles' = [singles EXCEPT ![p] = 0]
  /\ queries' = {m \in queries : m.peer # p}
  /\ invs' = {m \in invs : m.peer # p}
  /\ asked' = {m \in asked : m[1] # p}
  /\ disconnects' = disconnects + 1
  /\ UNCHANGED <<blockVars, requested, ahead, asking, blamed, holds, late>>

-----------------------------------------------------------------------------
Handle(p) == HandleInv(p) \/ HandleBlock(p) \/ PeerHasNot(p)
Answer(p) == PeerAnswers(p) \/ PeerAccepts(p)
Worker == StartWorker \/ WorkOff \/ AskForBlocks

Next ==
  \/ \E p \in Peers : \/ Handle(p) \/ Answer(p) \/ Connect(p) \/ Disconnect(p)
                      \/ GiveUpQuery(p)
  \/ Worker \/ FinishExec \/ GiveUpRequest

Spec == Init /\ [][Next]_vars

\* The worker runs every second, messages arrive and are answered, executions end,
\* hold-offs pass, peers are connected again and get every block.
Fairness ==
  /\ WF_vars(Worker) /\ WF_vars(FinishExec) /\ WF_vars(GiveUpRequest)
  /\ \A p \in Peers : /\ WF_vars(Handle(p)) /\ WF_vars(PeerAnswers(p))
                      /\ WF_vars(PeerAccepts(p)) /\ WF_vars(Connect(p))
                      /\ WF_vars(GiveUpQuery(p))

FairSpec == Spec /\ Fairness

-----------------------------------------------------------------------------
(***************************************************************************)
(* Properties.                                                             *)
(***************************************************************************)
Message == [peer : Peers, hashes : SUBSET Blocks]

\* The maps, marks and messages of the pipeline are about blocks and peers there are.
TypeOK ==
  /\ info \in [Blocks -> {"none", "inFlight", "bad"}]
  /\ {executed, requested, late} \subseteq SUBSET Blocks
  /\ \A f \in {toExec, unknown} : \A b \in DOMAIN f : b \in Blocks /\ f[b] \in Peers
  /\ executing \subseteq [block : Blocks, peer : Peers, by : {"net", "worker"}]
  /\ working \in BOOLEAN
  /\ {connected, ahead, asking, blamed} \subseteq SUBSET Peers
  /\ singles \in [Peers -> 0..(MaxSingles + 1)]
  /\ holds \in [Peers -> SUBSET Blocks]
  /\ queries \cup invs \subseteq Message
  /\ asked \subseteq Peers \X Blocks
  /\ disconnects + Cardinality(late) \in 0..MaxFaults

\* The blocks of F and those that stand on one of them.
Over(F) ==
  LET over[b \in Blocks] == b \in F \/ \E a \in Parents[b] : over[a]
  IN  {b \in Blocks : over[b]}

Tainted == Over(Faulty)

\* Those that failed here, or will.
Failing == Over(Invalid \cup {b \in Faulty : info[b] = "bad"})

\* A block that is stored and not executed is on its way to be: it is queued or being
\* executed, or it waits for a parent which is stored itself or is marked as unknown,
\* or a parent is bad (_processBlock, _blockProcessor, which takes every block off the
\* queue once it has tried it).
NothingForgotten ==
  \A b \in Blocks \ executed :
    info[b] = "inFlight" =>
      \/ b \in DOMAIN toExec \/ \E j \in executing : j.block = b
      \/ \E a \in Parents[b] \ executed : Known(a) \/ a \in DOMAIN unknown

\* Nothing is executed on a block that is not, or that is bad, nor is an invalid one.  What
\* is executed is bad only when its acceptance failed once it had been added, or when it
\* failed before it was executed again; nobody finds fault with what is executed for a
\* parent, however often it is received or queued (_canExecuteBlock, _execBlock).
ExecutedInOrder ==
  \A b \in executed :
    /\ b \notin Invalid /\ \A a \in Parents[b] : a \in executed /\ info[a] = "inFlight"
    /\ info[b] = "bad" => b \in Contested

\* A block is asked for again only when the request for it was given up, of whichever
\* peer, and never once it is stored (RequestCache and the two ways of requesting).
AskedOnce ==
  [][\A b \in Blocks :
       (\E p \in Peers : <<p, b>> \in asked' \ asked)
         => /\ ~Known(b)
            /\ UnderWay(b) => b \in late]_vars

\* misbehave is called on a peer only for a block that is or stands on one that fails, be
\* it for what this node has of others, or when the answer to a request came late.
BlamedForCause ==
  [][blamed' # blamed =>
       \E b \in Blocks :
         \/ b \in Tainted /\ info[b] # "bad" /\ info'[b] = "bad"
         \/ b \in Tainted /\ \E j \in executing \ executing' : j.block = b
         \/ b \in late /\ \E p \in Peers : <<p, b>> \in asked \ asked']_vars

\* Every block that is stored, on nothing that failed, is executed in the end, with its parents from
\* whatever peer, in whatever order, with connections lost (the worker,
\* _requestUnknownBlocks).
StoredIsExecuted ==
  <>[](\A b \in Blocks \ Failing : Known(b) => b \in executed)

\* A node does not stay in the state of initial loading, in which it tells nobody of
\* the blocks it accepts and makes none (_isInitialBlockLoading).  Not so when there are
\* bad blocks it has not got: a peer that found them bad goes on telling of them, since
\* _getBlocksFromLastKnown does not leave them out, and can not give them.
StopsLoading == <>[](InitialLoading => \E b \in Failing : ~Known(b))

=============================================================================
