------------------------------- MODULE PeerLife -------------------------------
(***************************************************************************)
(* The connections between two nodes: dialling, the version handshake, the *)
(* refusal of duplicates, disconnection, restriction, bans and peers given *)
(* up for dead (src/network/peer.js, src/network/peerManager.js and the    *)
(* handlers of the handshake in src/node/node.js).                         *)
(*                                                                         *)
(* What a node holds of another does not depend on a third, so two nodes   *)
(* are enough.  An end of a connection stands for the Peer object it       *)
(* belongs to.  A handler is one step but for the second it sleeps before  *)
(* it closes a connection it refused, and for the dialling.                *)
(***************************************************************************)
EXTENDS Integers, Sequences

CONSTANTS
  Nodes,
  Conns,          \* as many connections at a time, closed ones being taken again
  FailuresLimit,  \* PEER_FAILED_CONNECTIONS_LIMIT
  MaxFailures,    \* bound: dials that fail
  MaxCuts,        \* bound: connections that break, or reach the limit of bytes
  MaxBans,        \* bound: bans
  MaxCrossings    \* bound: dials while another connection is being set up or left over

ASSUME PeerAssumption ==
  /\ \E n, m \in Nodes : n # m /\ Nodes = {n, m}
  /\ Conns \subseteq Nat \ {0}
  /\ {FailuresLimit, MaxFailures, MaxCuts, MaxBans, MaxCrossings} \subseteq Nat

VARIABLES
  dialer,      \* dialer[c]: the node that dialled the connection
  end,         \* end[c][n]: "closed", "dialling", "pending" (to be accepted) or "open"
  stage,       \* stage[c][n]: "new", "refused", "version" or "full" (_handshakeDone)
  chan,        \* chan[c][n]: what is under way to n
  deaf,        \* deaf[n]: the ends whose Peer was replaced, which has no listeners
  table,       \* table[n]: the end of the Peer in _mapAllPeers, 0 when disconnected
  restricted,  \* _restrictedTill of that Peer is to come
  banned,      \* _bannedTill, _mapBannedAddresses
  failed,      \* failedConnectionsCount
  faults       \* how many failures, cuts, bans and crossings there were

ends == <<dialer, end, stage, chan, deaf, table>>
marks == <<restricted, banned, failed>>
vars == <<ends, marks, faults>>

Other(n) == CHOOSE m \in Nodes : m # n

Init ==
  /\ dialer \in [Conns -> {CHOOSE n \in Nodes : TRUE}]
  /\ end = [c \in Conns |-> [n \in Nodes |-> "closed"]]
  /\ stage = [c \in Conns |-> [n \in Nodes |-> "new"]]
  /\ chan = [c \in Conns |-> [n \in Nodes |-> << >>]]
  /\ deaf = [n \in Nodes |-> {}]
  /\ table = [n \in Nodes |-> 0]
  /\ restricted = [n \in Nodes |-> FALSE] /\ banned = [n \in Nodes |-> FALSE]
  /\ failed = [n \in Nodes |-> 0]
  /\ faults = [failures |-> 0, cuts |-> 0, bans |-> 0, crossings |-> 0]

-----------------------------------------------------------------------------
Open(n) == {c \in Conns : end[c][n] = "open"}
Dialling(n) == {c \in Conns : end[c][n] = "dialling"}
Free == {c \in Conns : \A n \in Nodes : end[c][n] = "closed"}
Inbound(n, c) == dialer[c] # n

\* isDead
IsDead(n) == failed[n] > FailuresLimit

FullyConnected(n, c) == end[c][n] = "open" /\ stage[c][n] = "full"
Linked == \E c \in Conns : \A n \in Nodes : FullyConnected(n, c)
BeingSetUp == \E c \in Conns \ Free : \E n \in Nodes : ~FullyConnected(n, c)

Count(fault, max) ==
  /\ faults[fault] < max
  /\ faults' = [faults EXCEPT ![fault] = @ + 1]

-----------------------------------------------------------------------------
(***************************************************************************)
(* Dialling.                                                               *)
(***************************************************************************)
\* findBestPeers
FindBestPeers(n) == ~restricted[n] /\ ~banned[n] /\ ~IsDead(n)

\* _reconnectPeers, connect up to its await: one dial at a time.
Dial(n) ==
  /\ table[n] = 0 /\ Dialling(n) = {} /\ FindBestPeers(n)
  /\ \E c \in Free :
       /\ \A d \in Free : c <= d
       /\ dialer' = [dialer EXCEPT ![c] = n]
       /\ end' = [end EXCEPT ![c][n] = "dialling", ![c][Other(n)] = "pending"]
       /\ stage' = [stage EXCEPT ![c] = [m \in Nodes |-> "new"]]
  /\ IF BeingSetUp THEN Count("crossings", MaxCrossings) ELSE UNCHANGED faults
  /\ UNCHANGED <<chan, deaf, table, marks>>

Send(channels, n, c, msgs) ==
  IF end[c][Other(n)] = "closed" THEN channels
  ELSE [channels EXCEPT ![c][Other(n)] = @ \o msgs]

\* addCandidateConnection, at the other side
Accept(n, c) ==
  /\ end[c][n] = "pending"
  /\ IF banned[n]
       THEN /\ end' = [end EXCEPT ![c][n] = "closed"]
            /\ chan' = [Send(chan, n, c, <<"close">>) EXCEPT ![c][n] = << >>]
       ELSE /\ end' = [end EXCEPT ![c][n] = "open"]
            /\ UNCHANGED chan
  /\ UNCHANGED <<dialer, stage, deaf, table, marks, faults>>

\* connect after its await, then the version
Dialled(n, c) ==
  /\ end[c][n] = "dialling"
  /\ end' = [end EXCEPT ![c][n] = "open"]
  /\ table' = IF c \in deaf[n] THEN table ELSE [table EXCEPT ![n] = c]
  /\ chan' = Send(chan, n, c, <<"version">>)
  /\ UNCHANGED <<dialer, stage, deaf, marks, faults>>

\* The await throws.
DialFails(n, c) ==
  /\ end[c][n] = "dialling" /\ end[c][Other(n)] = "pending"
  /\ Count("failures", MaxFailures)
  /\ end' = [end EXCEPT ![c] = [m \in Nodes |-> "closed"]]
  /\ failed' = IF c \in deaf[n] THEN failed ELSE [failed EXCEPT ![n] = @ + 1]
  /\ deaf' = [deaf EXCEPT ![n] = @ \ {c}]
  /\ UNCHANGED <<dialer, stage, chan, table, restricted, banned>>

-----------------------------------------------------------------------------
(***************************************************************************)
(* Closing.                                                                *)
(***************************************************************************)
\* _cleanup
Cleanup(n, c) ==
  /\ end' = [end EXCEPT ![c][n] = "closed"]
  /\ deaf' = [deaf EXCEPT ![n] = @ \ {c}]
  /\ table' = [table EXCEPT ![n] = IF @ = c THEN 0 ELSE @]

\* The end of n is closed; the other hears of it after what was sent before.
Close(n, c) ==
  /\ end[c][n] = "open"
  /\ Cleanup(n, c)
  /\ chan' = [Send(chan, n, c, <<"close">>) EXCEPT ![c][n] = << >>]
  /\ UNCHANGED <<dialer, stage>>

Restrict(n, c) ==
  restricted' = IF table[n] = c THEN [restricted EXCEPT ![n] = TRUE] ELSE restricted

\* disconnect
Disconnect(n, c) == Close(n, c) /\ Restrict(n, c)

\* _tick: the lifetime of a connection is long beside any message and any dial.
LifetimeEnds(n, c) ==
  /\ \A m \in Nodes : end[c][m] = "open" /\ chan[c][m] = << >> /\ stage[c][m] # "refused"
  /\ Disconnect(n, c)
  /\ UNCHANGED <<banned, failed, faults>>

\* The socket fails, or the limit of bytes is reached.
Cut(n, c) ==
  /\ Count("cuts", MaxCuts)
  /\ Disconnect(n, c) \/ (Close(n, c) /\ UNCHANGED restricted)
  /\ UNCHANGED <<banned, failed>>

\* misbehave, up to the limit
Ban(n, c) ==
  /\ FullyConnected(n, c)
  /\ Count("bans", MaxBans)
  /\ Disconnect(n, c)
  /\ banned' = [banned EXCEPT ![n] = TRUE]
  /\ UNCHANGED failed

RestrictionEnds(n) ==
  /\ restricted[n]
  /\ restricted' = [restricted EXCEPT ![n] = FALSE]
  /\ UNCHANGED <<ends, banned, failed, faults>>

BanEnds(n) ==
  /\ banned[n]
  /\ banned' = [banned EXCEPT ![n] = FALSE]
  /\ UNCHANGED <<ends, restricted, failed, faults>>

-----------------------------------------------------------------------------
(***************************************************************************)
(* The handshake.                                                          *)
(***************************************************************************)
Received(n, c, msg) ==
  /\ end[c][n] = "open" /\ chan[c][n] # << >> /\ Head(chan[c][n]) = msg

Read(n, c) == [chan EXCEPT ![c][n] = Tail(@)]

\* Mutant: an open connection does not count.
RejectionNotDuplicate(n) == banned[n] \/ restricted[n]

\* Mutant: a peer given up is refused.
RejectionDead(n) == banned[n] \/ restricted[n] \/ table[n] # 0 \/ IsDead(n)

\* addPeer of a Peer that comes with a connection: REJECT_BANNED, REJECT_RESTRICTED,
\* REJECT_DUPLICATE.  The Peer that is dialling counts as disconnected.
Rejection(n) == banned[n] \/ restricted[n] \/ table[n] # 0

\* Mutant: the own version goes out before the peer is associated.
RefuseAfterVersion(n, c) ==
  /\ Rejection(n)
  /\ stage' = [stage EXCEPT ![c][n] = "refused"]
  /\ chan' = Send(Read(n, c), n, c, <<"version", "verack", "reject">>)
  /\ UNCHANGED <<deaf, table, failed>>

\* _handleVersionMessage of an inbound connection, associatePeer
Refuse(n, c) ==
  /\ Rejection(n)
  /\ stage' = [stage EXCEPT ![c][n] = "refused"]
  /\ chan' = Send(Read(n, c), n, c, <<"reject">>)
  /\ UNCHANGED <<deaf, table, failed>>

\* Mutant: the verack goes out before the version.
AssociateVerackFirst(n, c) ==
  /\ ~Rejection(n)
  /\ stage' = [stage EXCEPT ![c][n] = "version"]
  /\ chan' = Send(Read(n, c), n, c, <<"verack", "version">>)
  /\ deaf' = [deaf EXCEPT ![n] = @ \cup Dialling(n)]
  /\ table' = [table EXCEPT ![n] = c]
  /\ failed' = [failed EXCEPT ![n] = 0]

\* The replaced Peer loses its listeners, the new one has no failures yet.
Associate(n, c) ==
  /\ ~Rejection(n)
  /\ stage' = [stage EXCEPT ![c][n] = "version"]
  /\ chan' = Send(Read(n, c), n, c, <<"version", "verack">>)
  /\ deaf' = [deaf EXCEPT ![n] = @ \cup Dialling(n)]
  /\ table' = [table EXCEPT ![n] = c]
  /\ failed' = [failed EXCEPT ![n] = 0]

\* The version that answers ours
Answer(n, c) ==
  /\ stage' = [stage EXCEPT ![c][n] = "version"]
  /\ chan' = Send(Read(n, c), n, c, <<"verack">>)
  /\ UNCHANGED <<deaf, table, failed>>

HandleVersion(n, c) ==
  /\ Received(n, c, "version") /\ c \notin deaf[n]
  /\ IF Inbound(n, c) THEN Refuse(n, c) \/ Associate(n, c) ELSE Answer(n, c)
  /\ UNCHANGED <<dialer, end, restricted, banned, faults>>

\* _handleVerackMessage
HandleVerack(n, c) ==
  /\ Received(n, c, "verack") /\ c \notin deaf[n]
  /\ stage' = [stage EXCEPT ![c][n] = IF @ = "new" THEN @ ELSE "full"]
  /\ chan' = Read(n, c)
  /\ UNCHANGED <<dialer, end, deaf, table, marks, faults>>

\* A reject is only logged; nobody listens to a Peer that was replaced.
Ignore(n, c) ==
  /\ \/ Received(n, c, "reject")
     \/ c \in deaf[n] /\ \E msg \in {"version", "verack"} : Received(n, c, msg)
  /\ chan' = Read(n, c)
  /\ UNCHANGED <<dialer, end, stage, deaf, table, marks, faults>>

HandleClose(n, c) ==
  /\ Received(n, c, "close")
  /\ Cleanup(n, c)
  /\ chan' = Read(n, c)
  /\ UNCHANGED <<dialer, stage, marks, faults>>

\* A second after the refusal
RefusalEnds(n, c) ==
  /\ stage[c][n] = "refused"
  /\ Disconnect(n, c)
  /\ UNCHANGED <<banned, failed, faults>>

-----------------------------------------------------------------------------
Handle(n, c) ==
  HandleVersion(n, c) \/ HandleVerack(n, c) \/ Ignore(n, c) \/ HandleClose(n, c)

Next ==
  \E n \in Nodes :
    \/ Dial(n) \/ RestrictionEnds(n) \/ BanEnds(n)
    \/ \E c \in Conns : \/ Accept(n, c) \/ Dialled(n, c) \/ DialFails(n, c)
                        \/ Handle(n, c) \/ RefusalEnds(n, c)
                        \/ LifetimeEnds(n, c) \/ Cut(n, c) \/ Ban(n, c)

Spec == Init /\ [][Next]_vars

\* Dials end, messages arrive, timers fire, restrictions and bans pass.
Fairness ==
  \A n \in Nodes :
    /\ WF_vars(Dial(n)) /\ WF_vars(RestrictionEnds(n)) /\ WF_vars(BanEnds(n))
    /\ \A c \in Conns : /\ WF_vars(Accept(n, c)) /\ WF_vars(Dialled(n, c))
                        /\ WF_vars(Handle(n, c)) /\ WF_vars(RefusalEnds(n, c))
                        /\ WF_vars(LifetimeEnds(n, c))

FairSpec == Spec /\ Fairness

-----------------------------------------------------------------------------
(***************************************************************************)
(* Properties.                                                             *)
(***************************************************************************)
\* Whatever both dial, accept, refuse and replace at once, a node is fully connected to
\* another over one connection at most, the one in its table, and to nobody it has
\* banned (addPeer, associatePeer).
OneLink ==
  \A n \in Nodes, c \in Conns : FullyConnected(n, c) => table[n] = c /\ ~banned[n]

\* A node takes itself to be fully connected only to one that has accepted it, as long
\* as that one does not close the connection (_handleVersionMessage, and the order of
\* versions and veracks).
BothAgree ==
  \A n \in Nodes, c \in Conns :
    FullyConnected(n, c) =>
      \/ end[c][Other(n)] = "closed"
      \/ table[Other(n)] = c /\ stage[c][Other(n)] \in {"version", "full"}

\* With nothing under way on an open connection both ends are fully connected, or the
\* node that dialled has replaced its Peer while it dialled.
SettledIsFull ==
  \A c \in Conns :
    (\A n \in Nodes : /\ end[c][n] = "open" /\ chan[c][n] = << >>
                      /\ stage[c][n] # "refused")
      => \/ \A n \in Nodes : FullyConnected(n, c)
         \/ c \in deaf[dialer[c]]

\* Two nodes get connected again and again, although connections end, break, cross and
\* are refused and dials fail, unless both give the other up for dead: a success does
\* not take back the failures before it (_reconnectPeers, failedConnectionsCount).
Reconnects == []<>Linked \/ <>[](\A n \in Nodes : IsDead(n))

=============================================================================
