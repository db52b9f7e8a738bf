---------------------------- MODULE PeerLifeProofs ----------------------------
(***************************************************************************)
(* Proofs about PeerLife, for any two nodes, number of connections, limit  *)
(* of failures and bound of faults.                                        *)
(***************************************************************************)
EXTENDS PeerLife, TLAPS

Ends == {"closed", "dialling", "pending", "open"}
Messages == {"version", "verack", "reject", "close"}
Stages == {"new", "refused", "version", "full"}

\* What may be under way to one end.
Silence == << >>
Bye == <<"close">>
No == <<"reject">>
Ack == <<"verack">>
Hello == <<"version">>
NoBye == <<"reject", "close">>
AckBye == <<"verack", "close">>
HelloBye == <<"version", "close">>
Welcome == <<"version", "verack">>
WelcomeBye == <<"version", "verack", "close">>

Words == Seq(Messages)
Channels == [Conns -> [Nodes -> Words]]

Shape ==
  /\ dialer \in [Conns -> Nodes]
  /\ end \in [Conns -> [Nodes -> Ends]]
  /\ stage \in [Conns -> [Nodes -> Stages]]
  /\ chan \in Channels
  /\ deaf \in [Nodes -> SUBSET Conns]
  /\ table \in [Nodes -> Conns \cup {0}]
  /\ banned \in [Nodes -> BOOLEAN]

(***************************************************************************)
(* The states of one connection: of the node that dialled and the one that *)
(* accepts, the ends ed and ea, the stages sd and sa and what is under way *)
(* to them, qd and qa; of the former, what became of its Peer.             *)
(***************************************************************************)
BeingDialled(ed, ea, sd, sa, qd, qa) ==
  /\ ed = "dialling" /\ sd = "new" /\ sa = "new" /\ qa = Silence
  /\ \/ ea \in {"pending", "open"} /\ qd = Silence
     \/ ea = "closed" /\ qd = Bye

ToBeAccepted(ed, ea, sd, sa, qd, qa) ==
  /\ ea = "pending" /\ sa = "new" /\ qd = Silence
  /\ \/ ed = "open" /\ sd = "new" /\ qa = Hello
     \/ ed = "closed" /\ qa = HelloBye

ClosedByAcceptor(ed, ea, sd, sa, qd, qa) ==
  /\ ed = "open" /\ ea = "closed" /\ qa = Silence
  /\ qd \in {Bye, NoBye, AckBye,
             WelcomeBye}

ClosedByDialer(ed, ea, sd, sa, qd, qa) ==
  /\ ed = "closed" /\ ea = "open" /\ qd = Silence
  /\ \/ qa = Bye
     \/ qa = HelloBye /\ sa = "new"
     \/ qa = AckBye /\ sa = "version"

\* Both ends are open: the version of the dialer has come, was refused, or was answered.
ShakingHands(sd, sa, qd, qa) ==
  \/ sa = "new" /\ sd = "new" /\ qa = Hello /\ qd = Silence
  \/ sa = "refused" /\ sd = "new" /\ qa = Silence /\ qd \in {Silence, No}
  \/ sa = "version" /\ sd = "new" /\ qa = Silence /\ qd = Welcome
  \/ sa = "version" /\ sd = "version" /\ qa = Ack /\ qd = Ack
  \/ sa = "version" /\ sd = "full" /\ qa = Ack /\ qd = Silence
  \/ sa = "full" /\ sd = "version" /\ qa = Silence /\ qd = Ack
  \/ sa = "full" /\ sd = "full" /\ qa = Silence /\ qd = Silence

\* The answer comes to a Peer without listeners.
Unheard(sd, sa, qd, qa) ==
  sa = "version" /\ sd = "new" /\ qa = Silence /\ qd \in {Silence, Ack}

LinkState(ed, ea, sd, sa, qd, qa, peer) ==
  /\ peer = "replaced" => ed \in {"dialling", "open"} /\ sd = "new"
  /\ sd # "refused"
  /\ \/ ed = "closed" /\ ea = "closed" /\ qd = Silence /\ qa = Silence
     \/ BeingDialled(ed, ea, sd, sa, qd, qa)
     \/ ToBeAccepted(ed, ea, sd, sa, qd, qa)
     \/ ClosedByAcceptor(ed, ea, sd, sa, qd, qa)
     \/ ClosedByDialer(ed, ea, sd, sa, qd, qa)
     \/ /\ ed = "open" /\ ea = "open"
        /\ ShakingHands(sd, sa, qd, qa) \/ (peer = "replaced" /\ Unheard(sd, sa, qd, qa))

PeerOf(n, c) == IF c \in deaf[n] THEN "replaced" ELSE "listens"

Link(c) ==
  LET d == dialer[c]
      a == Other(d)
  IN  /\ LinkState(end[c][d], end[c][a], stage[c][d], stage[c][a], chan[c][d], chan[c][a],
                   PeerOf(d, c))
      /\ c \notin deaf[a]

\* The Peer of an end is in the table of its node.
Registered(n, c) ==
  /\ end[c][n] = "open" /\ c \notin deaf[n]
  /\ ~Inbound(n, c) \/ stage[c][n] \in {"version", "full"}

\* What a node holds of the other: one connection in the table, or one being dialled.
Table(n) ==
  /\ \A c \in Conns : Registered(n, c) => table[n] = c /\ ~banned[n]
  /\ \A c \in Dialling(n) : c \notin deaf[n] => table[n] = 0 /\ ~banned[n]
  /\ \A c, e \in Dialling(n) : c = e

PeerInv ==
  /\ Shape
  /\ \A c \in Conns : Link(c)
  /\ \A n \in Nodes : Table(n)

-----------------------------------------------------------------------------
\* There are a node and the other.
LEMMA TwoNodes ==
  ASSUME NEW n \in Nodes
  PROVE  /\ Other(n) \in Nodes /\ Other(n) # n /\ Other(Other(n)) = n
         /\ \A m \in Nodes : m = n \/ m = Other(n)
BY PeerAssumption DEF Other

\* What is sent after what is under way already.
LEMMA Pair == ASSUME NEW a, NEW b PROVE <<a>> \o <<b>> = <<a, b>>
<1> DEFINE s == <<a>> \o <<b>>
<1>1. s \in Seq({a, b}) /\ Len(s) = 2 /\ s[1] = a /\ s[2] = b
  OBVIOUS
<1> HIDE DEF s
<1>2. s = [i \in 1..2 |-> s[i]]
  BY <1>1
<1>3. s = <<a, b>>
  BY <1>1, <1>2
<1> QED
  BY <1>3 DEF s

LEMMA Triple == ASSUME NEW a, NEW b, NEW c PROVE <<a, b>> \o <<c>> = <<a, b, c>>
<1> DEFINE s == <<a, b>> \o <<c>>
<1>1. s \in Seq({a, b, c}) /\ Len(s) = 3 /\ s[1] = a /\ s[2] = b /\ s[3] = c
  OBVIOUS
<1> HIDE DEF s
<1>2. s = [i \in 1..3 |-> s[i]]
  BY <1>1
<1>3. s = <<a, b, c>>
  BY <1>1, <1>2
<1> QED
  BY <1>3 DEF s

\* Which word comes first, what is left after it, and what becomes of it when more is sent.
LEMMA Talk ==
  /\ {Silence, Bye, No, Ack, Hello, Welcome} \subseteq Words
  /\ \A w \in {Bye, NoBye, No, AckBye, Ack, HelloBye, Hello, WelcomeBye, Welcome} : w # Silence
  /\ Head(Bye) = "close" /\ Tail(Bye) = Silence
  /\ Head(No) = "reject" /\ Tail(No) = Silence
  /\ Head(NoBye) = "reject" /\ Tail(NoBye) = Bye
  /\ Head(Ack) = "verack" /\ Tail(Ack) = Silence
  /\ Head(AckBye) = "verack" /\ Tail(AckBye) = Bye
  /\ Head(Hello) = "version" /\ Tail(Hello) = Silence
  /\ Head(HelloBye) = "version" /\ Tail(HelloBye) = Bye
  /\ Head(Welcome) = "version" /\ Tail(Welcome) = Ack
  /\ Head(WelcomeBye) = "version" /\ Tail(WelcomeBye) = AckBye
  /\ \A w \in {Bye, No, Ack, Hello, Welcome} : Silence \o w = w
  /\ No \o Bye = NoBye /\ Ack \o Bye = AckBye /\ Hello \o Bye = HelloBye
  /\ Welcome \o Bye = WelcomeBye
<1> USE DEF Messages, Silence, Bye, NoBye, No, AckBye, Ack, HelloBye, Hello, WelcomeBye, Welcome
<1>1. \A w \in {Bye, NoBye, No, AckBye, Ack, HelloBye, Hello, WelcomeBye, Welcome} : w # Silence
  OBVIOUS
<1>2. /\ Head(Bye) = "close" /\ Tail(Bye) = Silence
      /\ Head(No) = "reject" /\ Tail(No) = Silence
      /\ Head(NoBye) = "reject" /\ Tail(NoBye) = Bye
      /\ Head(Ack) = "verack" /\ Tail(Ack) = Silence
      /\ Head(AckBye) = "verack" /\ Tail(AckBye) = Bye
  OBVIOUS
<1>3. /\ Head(Hello) = "version" /\ Tail(Hello) = Silence
      /\ Head(HelloBye) = "version" /\ Tail(HelloBye) = Bye
      /\ Head(Welcome) = "version" /\ Tail(Welcome) = Ack
      /\ Head(WelcomeBye) = "version" /\ Tail(WelcomeBye) = AckBye
  OBVIOUS
<1>4. \A w \in Seq(Messages) : Silence \o w = w
  OBVIOUS
<1>5. {Silence, Bye, No, Ack, Hello, Welcome} \subseteq Words
  BY DEF Words
<1>6. \A w \in {Bye, No, Ack, Hello, Welcome} : Silence \o w = w
  BY <1>4, <1>5 DEF Words
<1> QED
  BY <1>1, <1>2, <1>3, <1>5, <1>6, Pair, Triple

-----------------------------------------------------------------------------
(***************************************************************************)
(* One connection, step by step.                                           *)
(***************************************************************************)
\* An end is closed, and the other told if it is there (_cleanup).
LEMMA DialerCloses ==
  ASSUME NEW ea, NEW sd, NEW sa, NEW qd, NEW qa, NEW p,
         LinkState("open", ea, sd, sa, qd, qa, p)
  PROVE  LinkState("closed", ea, sd, sa, Silence,
                   IF ea = "closed" THEN qa ELSE qa \o Bye, "listens")
BY Talk DEF LinkState, BeingDialled, ToBeAccepted, ClosedByAcceptor, ClosedByDialer,
            ShakingHands, Unheard

LEMMA AcceptorCloses ==
  ASSUME NEW ed, NEW sd, NEW sa, NEW qd, NEW qa, NEW p,
         LinkState(ed, "open", sd, sa, qd, qa, p)
  PROVE  LinkState(ed, "closed", sd, sa,
                   IF ed = "closed" THEN qd ELSE qd \o Bye, Silence, p)
BY Talk DEF LinkState, BeingDialled, ToBeAccepted, ClosedByAcceptor, ClosedByDialer,
            ShakingHands, Unheard

\* The connection is accepted; the dial ends, with the version or without.
LEMMA Accepts ==
  ASSUME NEW ed, NEW sd, NEW sa, NEW qd, NEW qa, NEW p,
         LinkState(ed, "pending", sd, sa, qd, qa, p)
  PROVE  LinkState(ed, "open", sd, sa, qd, qa, p)
BY Talk DEF LinkState, BeingDialled, ToBeAccepted, ClosedByAcceptor, ClosedByDialer,
       ShakingHands, Unheard

LEMMA DialEnds ==
  ASSUME NEW ea, NEW sd, NEW sa, NEW qd, NEW qa, NEW p,
         LinkState("dialling", ea, sd, sa, qd, qa, p)
  PROVE  LinkState("open", ea, sd, sa, qd,
                   IF ea = "closed" THEN qa ELSE qa \o Hello, p)
BY Talk DEF LinkState, BeingDialled, ToBeAccepted, ClosedByAcceptor, ClosedByDialer,
            ShakingHands, Unheard

LEMMA NoConnection ==
  ASSUME NEW sd, NEW sa, NEW qd, NEW qa, NEW p,
         LinkState("dialling", "pending", sd, sa, qd, qa, p)
  PROVE  LinkState("closed", "closed", sd, sa, qd, qa, "listens")
BY Talk DEF LinkState, BeingDialled, ToBeAccepted, ClosedByAcceptor, ClosedByDialer,
       ShakingHands, Unheard

\* The acceptor gets the version.
LEMMA VersionRefused ==
  ASSUME NEW ed, NEW sd, NEW sa, NEW qd, NEW qa, NEW p,
         LinkState(ed, "open", sd, sa, qd, qa, p), qa # Silence, Head(qa) = "version"
  PROVE  LinkState(ed, "open", sd, "refused",
                   IF ed = "closed" THEN qd ELSE qd \o No, Tail(qa), p)
BY Talk DEF LinkState, BeingDialled, ToBeAccepted, ClosedByAcceptor, ClosedByDialer,
            ShakingHands, Unheard

LEMMA VersionTaken ==
  ASSUME NEW ed, NEW sd, NEW sa, NEW qd, NEW qa, NEW p,
         LinkState(ed, "open", sd, sa, qd, qa, p), qa # Silence, Head(qa) = "version"
  PROVE  LinkState(ed, "open", sd, "version",
                   IF ed = "closed" THEN qd ELSE qd \o Welcome, Tail(qa), p)
BY Talk DEF LinkState, BeingDialled, ToBeAccepted, ClosedByAcceptor, ClosedByDialer,
            ShakingHands, Unheard

\* The dialer gets the answer.
LEMMA AnswerTaken ==
  ASSUME NEW ea, NEW sd, NEW sa, NEW qd, NEW qa,
         LinkState("open", ea, sd, sa, qd, qa, "listens"), qd # Silence, Head(qd) = "version"
  PROVE  LinkState("open", ea, "version", sa, Tail(qd),
                   IF ea = "closed" THEN qa ELSE qa \o Ack, "listens")
BY Talk DEF LinkState, BeingDialled, ToBeAccepted, ClosedByAcceptor, ClosedByDialer,
            ShakingHands, Unheard

\* A verack completes the handshake of who has got the version.
LEMMA DialerVerack ==
  ASSUME NEW ea, NEW sd, NEW sa, NEW qd, NEW qa,
         LinkState("open", ea, sd, sa, qd, qa, "listens"), qd # Silence, Head(qd) = "verack"
  PROVE  LinkState("open", ea, IF sd = "new" THEN sd ELSE "full", sa, Tail(qd), qa, "listens")
BY Talk DEF LinkState, BeingDialled, ToBeAccepted, ClosedByAcceptor, ClosedByDialer,
       ShakingHands, Unheard

LEMMA AcceptorVerack ==
  ASSUME NEW ed, NEW sd, NEW sa, NEW qd, NEW qa, NEW p,
         LinkState(ed, "open", sd, sa, qd, qa, p), qa # Silence, Head(qa) = "verack"
  PROVE  /\ sa = "version"
         /\ LinkState(ed, "open", sd, "full", qd, Tail(qa), p)
BY Talk DEF LinkState, BeingDialled, ToBeAccepted, ClosedByAcceptor, ClosedByDialer,
       ShakingHands, Unheard

\* What is not listened to; who accepts is never refused.
LEMMA Ignored ==
  ASSUME NEW ea, NEW sd, NEW sa, NEW qd, NEW qa, NEW p,
         LinkState("open", ea, sd, sa, qd, qa, p), qd # Silence,
         Head(qd) = "reject" \/ (p = "replaced" /\ Head(qd) \in {"version", "verack"})
  PROVE  LinkState("open", ea, sd, sa, Tail(qd), qa, p)
BY Talk DEF LinkState, BeingDialled, ToBeAccepted, ClosedByAcceptor, ClosedByDialer,
       ShakingHands, Unheard

LEMMA NeverRefused ==
  ASSUME NEW ed, NEW sd, NEW sa, NEW qd, NEW qa, NEW p,
         LinkState(ed, "open", sd, sa, qd, qa, p), qa # Silence
  PROVE  Head(qa) # "reject"
BY Talk DEF LinkState, BeingDialled, ToBeAccepted, ClosedByAcceptor, ClosedByDialer,
       ShakingHands, Unheard

\* The other end has been closed.
LEMMA DialerHearsClose ==
  ASSUME NEW ea, NEW sd, NEW sa, NEW qd, NEW qa, NEW p,
         LinkState("open", ea, sd, sa, qd, qa, p), qd # Silence, Head(qd) = "close"
  PROVE  LinkState("closed", ea, sd, sa, Tail(qd), qa, "listens")
BY Talk DEF LinkState, BeingDialled, ToBeAccepted, ClosedByAcceptor, ClosedByDialer,
       ShakingHands, Unheard

LEMMA AcceptorHearsClose ==
  ASSUME NEW ed, NEW sd, NEW sa, NEW qd, NEW qa, NEW p,
         LinkState(ed, "open", sd, sa, qd, qa, p), qa # Silence, Head(qa) = "close"
  PROVE  LinkState(ed, "closed", sd, sa, qd, Tail(qa), p)
BY Talk DEF LinkState, BeingDialled, ToBeAccepted, ClosedByAcceptor, ClosedByDialer,
       ShakingHands, Unheard

-----------------------------------------------------------------------------
(***************************************************************************)
(* All connections, and the table.                                         *)
(***************************************************************************)
\* At the start nothing is dialled.
LEMMA InitPeer == Init => PeerInv
<1> SUFFICES ASSUME Init PROVE PeerInv
  OBVIOUS
<1>1. Shape
  <2>1. (CHOOSE n \in Nodes : TRUE) \in Nodes
    BY PeerAssumption
  <2> QED
    BY <2>1 DEF Init, Shape, Ends, Stages, Channels, Words
<1>2. ASSUME NEW c \in Conns PROVE Link(c)
  <2>1. dialer[c] \in Nodes /\ Other(dialer[c]) \in Nodes
    BY <1>1, TwoNodes DEF Shape
  <2>2. \A m \in Nodes : /\ end[c][m] = "closed" /\ stage[c][m] = "new"
                         /\ chan[c][m] = Silence /\ c \notin deaf[m]
    BY DEF Init, Silence
  <2>3. PeerOf(dialer[c], c) = "listens"
    BY <2>1, <2>2 DEF PeerOf
  <2>4. LinkState("closed", "closed", "new", "new", Silence, Silence, "listens")
    BY DEF LinkState
  <2> QED
    BY <2>1, <2>2, <2>3, <2>4 DEF Link
<1>3. ASSUME NEW n \in Nodes PROVE Table(n)
  BY DEF Init, Table, Registered, Dialling
<1> QED
  BY <1>1, <1>2, <1>3 DEF PeerInv

\* A connection to which nothing happens, but that its Peer may be replaced while it dials.
LEMMA OtherLink ==
  ASSUME Shape, NEW c \in Conns, Link(c),
         dialer'[c] = dialer[c], end'[c] = end[c], stage'[c] = stage[c], chan'[c] = chan[c],
         \A m \in Nodes : (c \in deaf[m] => c \in deaf'[m])
                          /\ (c \in deaf'[m] \ deaf[m] => end[c][m] = "dialling")
  PROVE  Link(c)'
<1> DEFINE d == dialer[c]
           a == Other(d)
<1>1. d \in Nodes /\ a \in Nodes
  BY TwoNodes DEF Shape
<1>2. end[c][a] # "dialling"
  BY DEF Link, LinkState, BeingDialled, ToBeAccepted, ClosedByAcceptor, ClosedByDialer
<1>3. c \notin deaf'[a]
  BY <1>1, <1>2 DEF Link
<1>4. \/ PeerOf(d, c)' = PeerOf(d, c)
      \/ PeerOf(d, c)' = "replaced" /\ PeerOf(d, c) = "listens" /\ end[c][d] = "dialling"
  BY <1>1 DEF PeerOf
<1>5. LinkState(end[c][d], end[c][a], stage[c][d], stage[c][a], chan[c][d], chan[c][a],
                PeerOf(d, c)')
  <2>1. CASE PeerOf(d, c)' = PeerOf(d, c)
    BY <2>1 DEF Link
  <2>2. CASE PeerOf(d, c)' = "replaced" /\ end[c][d] = "dialling"
    BY <2>2 DEF Link, LinkState, BeingDialled, ToBeAccepted, ClosedByAcceptor, ClosedByDialer
  <2> QED
    BY <1>4, <2>1, <2>2
<1> QED
  BY <1>3, <1>5 DEF Link, PeerOf

\* A node that gets no more connections and is no more banned.
LEMMA OtherTable ==
  ASSUME NEW m \in Nodes, Table(m),
         \A c \in Conns : /\ Registered(m, c)' => Registered(m, c)
                          /\ c \in Dialling(m)' =>
                               c \in Dialling(m) /\ (c \in deaf[m] => c \in deaf'[m]),
         table'[m] = table[m], banned'[m] => banned[m]
  PROVE  Table(m)'
BY DEF Table, Dialling

\* What becomes of the channels of a connection.
LEMMA SendIs ==
  ASSUME NEW n \in Nodes, NEW c \in Conns, NEW q \in Channels, NEW w \in Words
  PROVE  /\ Send(q, n, c, w) \in Channels
         /\ \A e \in Conns \ {c} : Send(q, n, c, w)[e] = q[e]
         /\ Send(q, n, c, w)[c][n] = q[c][n]
         /\ Send(q, n, c, w)[c][Other(n)] =
              IF end[c][Other(n)] = "closed" THEN q[c][Other(n)] ELSE q[c][Other(n)] \o w
<1>1. Other(n) \in Nodes /\ Other(n) # n
  BY TwoNodes
<1>2. q[c][Other(n)] \in Words
  BY <1>1 DEF Channels
<1>3. q[c][Other(n)] \o w \in Words
  BY <1>2 DEF Words
<1> QED
  BY <1>1, <1>3 DEF Send, Channels

LEMMA ReadIs ==
  ASSUME NEW n \in Nodes, NEW c \in Conns, chan \in Channels, chan[c][n] # Silence
  PROVE  /\ Read(n, c) \in Channels
         /\ \A e \in Conns \ {c} : Read(n, c)[e] = chan[e]
         /\ Read(n, c)[c][n] = Tail(chan[c][n])
         /\ Read(n, c)[c][Other(n)] = chan[c][Other(n)]
<1>1. Other(n) \in Nodes /\ Other(n) # n
  BY TwoNodes
<1>2. chan[c][n] \in Words
  BY DEF Channels
<1>3. Tail(chan[c][n]) \in Words
  BY <1>2 DEF Words, Silence
<1> QED
  BY <1>1, <1>3 DEF Read, Channels

\* What a node that takes a message and answers makes of the channels.
LEMMA ReplyIs ==
  ASSUME NEW n \in Nodes, NEW c \in Conns, chan \in Channels, chan[c][n] # Silence,
         NEW w \in Words, chan' = Send(Read(n, c), n, c, w)
  PROVE  /\ chan' \in Channels
         /\ \A e \in Conns \ {c} : chan'[e] = chan[e]
         /\ chan'[c][n] = Tail(chan[c][n])
         /\ chan'[c][Other(n)] = IF end[c][Other(n)] = "closed" THEN chan[c][Other(n)]
                                 ELSE chan[c][Other(n)] \o w
<1> DEFINE q == Read(n, c)
<1>1. /\ q \in Channels /\ \A e \in Conns \ {c} : q[e] = chan[e]
      /\ q[c][n] = Tail(chan[c][n]) /\ q[c][Other(n)] = chan[c][Other(n)]
  BY ReadIs
<1>2. chan' = Send(q, n, c, w)
  OBVIOUS
<1> HIDE DEF q
<1> QED
  BY <1>1, <1>2, SendIs

\* What is being sent to a closing end is gone; the other hears of it.
LEMMA CloseIs ==
  ASSUME NEW n \in Nodes, NEW c \in Conns, chan \in Channels,
         chan' = [Send(chan, n, c, <<"close">>) EXCEPT ![c][n] = << >>]
  PROVE  /\ chan' \in Channels
         /\ \A e \in Conns \ {c} : chan'[e] = chan[e]
         /\ chan'[c][n] = Silence
         /\ chan'[c][Other(n)] = IF end[c][Other(n)] = "closed" THEN chan[c][Other(n)]
                                 ELSE chan[c][Other(n)] \o Bye
<1> DEFINE s == Send(chan, n, c, Bye)
<1>1. Bye \in Words /\ Silence \in Words /\ Other(n) \in Nodes /\ Other(n) # n
  BY Talk, TwoNodes
<1>2. /\ s \in Channels
      /\ \A e \in Conns \ {c} : s[e] = chan[e]
      /\ s[c][Other(n)] = IF end[c][Other(n)] = "closed" THEN chan[c][Other(n)]
                          ELSE chan[c][Other(n)] \o Bye
  BY <1>1, SendIs
<1>3. chan' = [s EXCEPT ![c][n] = Silence]
  BY DEF Bye, Silence
<1> HIDE DEF s
<1>4. /\ chan' \in Channels
      /\ \A e \in Conns \ {c} : chan'[e] = s[e]
      /\ chan'[c][n] = Silence /\ chan'[c][Other(n)] = s[c][Other(n)]
  <2> DEFINE r == [s[c] EXCEPT ![n] = Silence]
  <2>1. r \in [Nodes -> Words] /\ r[n] = Silence /\ r[Other(n)] = s[c][Other(n)]
    BY <1>1, <1>2 DEF Channels
  <2>2. chan' = [s EXCEPT ![c] = r]
    BY <1>3
  <2> HIDE DEF r
  <2> QED
    BY <1>2, <2>1, <2>2 DEF Channels
<1> QED
  BY <1>2, <1>4

-----------------------------------------------------------------------------
(***************************************************************************)
(* Closing an end keeps the invariant.                                     *)
(***************************************************************************)
\* Whoever hears of what, the tables stay right.
LEMMA CleanupKeeps ==
  ASSUME PeerInv, NEW n \in Nodes, NEW c \in Conns, end[c][n] = "open", Cleanup(n, c),
         dialer' = dialer, stage' = stage, chan' \in Channels,
         \A e \in Conns \ {c} : chan'[e] = chan[e],
         LinkState(end'[c][dialer[c]], end'[c][Other(dialer[c])],
                   stage[c][dialer[c]], stage[c][Other(dialer[c])],
                   chan'[c][dialer[c]], chan'[c][Other(dialer[c])],
                   IF n = dialer[c] THEN "listens" ELSE PeerOf(dialer[c], c)),
         \/ banned' = banned
         \/ FullyConnected(n, c) /\ banned' = [banned EXCEPT ![n] = TRUE]
  PROVE  PeerInv'
<1> DEFINE o == Other(n)
<1> USE DEF PeerInv
<1>1. /\ n \in Nodes /\ o \in Nodes /\ o # n /\ Other(o) = n
      /\ \A m \in Nodes : m = n \/ m = o
  BY TwoNodes
<1>2. /\ end' = [end EXCEPT ![c][n] = "closed"]
      /\ deaf' = [deaf EXCEPT ![n] = @ \ {c}]
      /\ table' = [table EXCEPT ![n] = IF @ = c THEN 0 ELSE @]
  BY DEF Cleanup
<1>3. Shape'
  BY <1>1, <1>2 DEF Shape, Ends
<1>4. ASSUME NEW e \in Conns PROVE Link(e)'
  <2>1. CASE e # c
    BY <1>2, <2>1, OtherLink DEF Shape
  <2>2. CASE e = c /\ n = dialer[c]
    <3>1. c \notin deaf'[n] /\ c \notin deaf'[o]
      BY <1>1, <1>2, <2>2 DEF Link, Shape
    <3> QED
      BY <2>2, <3>1 DEF Link, PeerOf
  <2>3. CASE e = c /\ n # dialer[c]
    <3>1. dialer[c] = o
      BY <1>1, <2>3 DEF Shape
    <3>2. c \notin deaf'[n] /\ PeerOf(o, c)' = PeerOf(o, c)
      BY <1>1, <1>2, <3>1 DEF Link, Shape, PeerOf
    <3> QED
      BY <1>1, <2>3, <3>1, <3>2 DEF Link
  <2> QED
    BY <2>1, <2>2, <2>3
<1>5. Table(o)'
  <2>1. \A e \in Conns : end'[e][o] = end[e][o] /\ stage'[e][o] = stage[e][o]
    BY <1>1, <1>2 DEF Shape
  <2>2. table'[o] = table[o] /\ deaf'[o] = deaf[o] /\ banned'[o] = banned[o]
    BY <1>1, <1>2 DEF Shape
  <2> QED
    BY <1>1, <2>1, <2>2, OtherTable DEF Registered, Inbound, Dialling
<1>6. Table(n)'
  <2>1. \A e \in Conns \ {c} : end'[e][n] = end[e][n] /\ stage'[e][n] = stage[e][n]
                               /\ (e \in deaf'[n]) = (e \in deaf[n])
    BY <1>1, <1>2 DEF Shape
  <2>2. end'[c][n] = "closed"
    BY <1>1, <1>2 DEF Shape
  <2>3. \A e \in Conns : /\ Registered(n, e)' => Registered(n, e) /\ e # c
                         /\ e \in Dialling(n)' => e \in Dialling(n) /\ e # c
                                               /\ (e \in deaf[n] => e \in deaf'[n])
    BY <2>1, <2>2 DEF Registered, Inbound, Dialling
  <2>4. table'[n] = IF table[n] = c THEN 0 ELSE table[n]
    BY <1>1, <1>2 DEF Shape
  <2>5. CASE banned' = banned
    <3>1. \A e \in Conns : Registered(n, e)' => table'[n] = e /\ ~banned'[n]
      BY <2>3, <2>4, <2>5 DEF Table
    <3> QED
      BY <2>3, <2>4, <2>5, <3>1 DEF Table, Dialling
  <2>6. CASE FullyConnected(n, c)
    <3>1. Registered(n, c)
      <4>1. c \notin deaf[n]
        <5>1. CASE n = dialer[c]
          BY <2>6, <5>1 DEF FullyConnected, Link, LinkState, PeerOf
        <5>2. CASE o = dialer[c]
          BY <1>1, <5>2 DEF Link
        <5> QED
          BY <1>1, <5>1, <5>2 DEF Shape
      <4> QED
        BY <2>6, <4>1 DEF Registered, FullyConnected
    <3>2. table[n] = c /\ c # 0
      BY <3>1, PeerAssumption DEF Table
    <3>3. \A e \in Conns : ~Registered(n, e)' /\ (e \in Dialling(n)' => e \in deaf'[n])
      BY <2>3, <3>2 DEF Table, Dialling
    <3> QED
      BY <2>3, <3>3 DEF Table, Dialling
  <2> QED
    BY <2>5, <2>6
<1> QED
  BY <1>1, <1>3, <1>4, <1>5, <1>6

\* The node closes it itself.
LEMMA CloseKeeps ==
  ASSUME PeerInv, NEW n \in Nodes, NEW c \in Conns, Close(n, c),
         \/ banned' = banned
         \/ FullyConnected(n, c) /\ banned' = [banned EXCEPT ![n] = TRUE]
  PROVE  PeerInv'
<1> DEFINE o == Other(n)
<1> USE DEF PeerInv
<1>1. /\ n \in Nodes /\ o \in Nodes /\ o # n /\ Other(o) = n
      /\ \A m \in Nodes : m = n \/ m = o
  BY TwoNodes
<1>2. end[c][n] = "open" /\ dialer' = dialer /\ stage' = stage /\ Cleanup(n, c)
  BY DEF Close
<1>3. end'[c][n] = "closed" /\ end'[c][o] = end[c][o]
  BY <1>1, <1>2 DEF Shape, Cleanup
<1>4. /\ chan' \in Channels /\ \A e \in Conns \ {c} : chan'[e] = chan[e]
      /\ chan'[c][n] = Silence
      /\ chan'[c][o] = IF end[c][o] = "closed" THEN chan[c][o] ELSE chan[c][o] \o Bye
  BY CloseIs DEF Close, Shape
<1>5. CASE n = dialer[c]
  <2>1. LinkState("open", end[c][o], stage[c][n], stage[c][o], chan[c][n], chan[c][o],
                  PeerOf(n, c))
    BY <1>2, <1>5 DEF Link
  <2>2. LinkState("closed", end[c][o], stage[c][n], stage[c][o], Silence, chan'[c][o],
                  "listens")
    BY <1>4, <2>1, DialerCloses
  <2> QED
    BY <1>2, <1>3, <1>4, <1>5, <2>2, CleanupKeeps
<1>6. CASE n # dialer[c]
  <2>1. dialer[c] = o
    BY <1>1, <1>6 DEF Shape
  <2>2. LinkState(end[c][o], "open", stage[c][o], stage[c][n], chan[c][o], chan[c][n],
                  PeerOf(o, c))
    BY <1>1, <1>2, <2>1 DEF Link
  <2>3. LinkState(end[c][o], "closed", stage[c][o], stage[c][n], chan'[c][o], Silence,
                  PeerOf(o, c))
    <3>1. CASE end[c][o] = "closed"
      BY <1>4, <2>2, <3>1, AcceptorCloses
    <3>2. CASE end[c][o] # "closed"
      BY <1>4, <2>2, <3>2, AcceptorCloses
    <3> QED
      BY <3>1, <3>2
  <2> QED
    BY <1>1, <1>2, <1>3, <1>4, <1>6, <2>1, <2>3, CleanupKeeps
<1> QED
  BY <1>5, <1>6

\* It has heard that the other end is closed.
LEMMA HandleCloseKeeps ==
  ASSUME PeerInv, NEW n \in Nodes, NEW c \in Conns, HandleClose(n, c)
  PROVE  PeerInv'
<1> DEFINE o == Other(n)
<1> USE DEF PeerInv
<1>1. /\ n \in Nodes /\ o \in Nodes /\ o # n /\ Other(o) = n
      /\ \A m \in Nodes : m = n \/ m = o
  BY TwoNodes
<1>2. /\ end[c][n] = "open" /\ chan[c][n] # Silence /\ Head(chan[c][n]) = "close"
      /\ dialer' = dialer /\ stage' = stage /\ banned' = banned /\ Cleanup(n, c)
  BY DEF HandleClose, Received, Silence, marks
<1>3. end'[c][n] = "closed" /\ end'[c][o] = end[c][o]
  BY <1>1, <1>2 DEF Shape, Cleanup
<1>4. /\ chan' \in Channels /\ \A e \in Conns \ {c} : chan'[e] = chan[e]
      /\ chan'[c][n] = Tail(chan[c][n]) /\ chan'[c][o] = chan[c][o]
  BY <1>2, ReadIs DEF HandleClose, Shape
<1>5. CASE n = dialer[c]
  <2>1. LinkState("open", end[c][o], stage[c][n], stage[c][o], chan[c][n], chan[c][o],
                  PeerOf(n, c))
    BY <1>2, <1>5 DEF Link
  <2>2. LinkState("closed", end[c][o], stage[c][n], stage[c][o], chan'[c][n], chan[c][o],
                  "listens")
    BY <1>2, <1>4, <2>1, DialerHearsClose
  <2> QED
    BY <1>2, <1>3, <1>4, <1>5, <2>2, CleanupKeeps
<1>6. CASE n # dialer[c]
  <2>1. dialer[c] = o
    BY <1>1, <1>6 DEF Shape
  <2>2. LinkState(end[c][o], "open", stage[c][o], stage[c][n], chan[c][o], chan[c][n],
                  PeerOf(o, c))
    BY <1>1, <1>2, <2>1 DEF Link
  <2>3. LinkState(end[c][o], "closed", stage[c][o], stage[c][n], chan[c][o], chan'[c][n],
                  PeerOf(o, c))
    BY <1>2, <1>4, <2>2, AcceptorHearsClose
  <2> QED
    BY <1>1, <1>2, <1>3, <1>4, <1>6, <2>1, <2>3, CleanupKeeps
<1> QED
  BY <1>5, <1>6

-----------------------------------------------------------------------------
(***************************************************************************)
(* So does every other step.                                               *)
(***************************************************************************)
\* A handler that leaves the connections and the tables alone.
LEMMA HandlerKeeps ==
  ASSUME PeerInv, NEW n \in Nodes, NEW c \in Conns, NEW st \in Stages,
         dialer' = dialer, end' = end, deaf' = deaf, table' = table, banned' = banned,
         stage' = [stage EXCEPT ![c][n] = st], chan' \in Channels,
         \A e \in Conns \ {c} : chan'[e] = chan[e],
         Link(c)', Registered(n, c)' => Registered(n, c)
  PROVE  PeerInv'
<1> USE DEF PeerInv
<1>1. Shape'
  BY DEF Shape
<1>2. ASSUME NEW e \in Conns PROVE Link(e)'
  <2>1. CASE e # c
    BY <2>1, OtherLink DEF Shape
  <2> QED
    BY <2>1
<1>3. ASSUME NEW m \in Nodes PROVE Table(m)'
  <2>1. \A e \in Conns : Registered(m, e)' => Registered(m, e)
    BY DEF Registered, Inbound, Shape
  <2>2. Dialling(m)' = Dialling(m)
    BY DEF Dialling
  <2> QED
    BY <2>1, <2>2, OtherTable
<1> QED
  BY <1>1, <1>2, <1>3

LEMMA RefuseKeeps ==
  ASSUME PeerInv, NEW n \in Nodes, NEW c \in Conns, HandleVersion(n, c),
         Inbound(n, c), Refuse(n, c)
  PROVE  PeerInv'
<1> DEFINE o == Other(n)
<1> USE DEF PeerInv
<1>1. o \in Nodes /\ o # n /\ Other(o) = n /\ dialer[c] = o
  BY TwoNodes DEF Shape, Inbound
<1>2. /\ end[c][n] = "open" /\ chan[c][n] # Silence /\ Head(chan[c][n]) = "version"
      /\ dialer' = dialer /\ end' = end /\ deaf' = deaf /\ table' = table /\ banned' = banned
      /\ stage' = [stage EXCEPT ![c][n] = "refused"]
      /\ chan' = Send(Read(n, c), n, c, No)
  BY DEF HandleVersion, Refuse, Received, Silence, No
<1>3. /\ chan' \in Channels /\ \A e \in Conns \ {c} : chan'[e] = chan[e]
      /\ chan'[c][n] = Tail(chan[c][n])
      /\ chan'[c][o] = IF end[c][o] = "closed" THEN chan[c][o] ELSE chan[c][o] \o No
  BY <1>2, Talk, ReplyIs DEF Shape
<1>4. LinkState(end[c][o], "open", stage[c][o], stage[c][n], chan[c][o], chan[c][n],
                PeerOf(o, c))
  BY <1>1, <1>2 DEF Link
<1>5. LinkState(end[c][o], "open", stage[c][o], "refused", chan'[c][o], Tail(chan[c][n]),
                PeerOf(o, c))
  <2>1. CASE end[c][o] = "closed"
    BY <1>2, <1>3, <1>4, <2>1, VersionRefused
  <2>2. CASE end[c][o] # "closed"
    BY <1>2, <1>3, <1>4, <2>2, VersionRefused
  <2> QED
    BY <2>1, <2>2
<1>6. stage'[c][n] = "refused" /\ stage'[c][o] = stage[c][o] /\ PeerOf(o, c)' = PeerOf(o, c)
  BY <1>1, <1>2 DEF Shape, PeerOf
<1>7. Link(c)'
  BY <1>1, <1>2, <1>3, <1>5, <1>6 DEF Link
<1>8. ~Registered(n, c)'
  BY <1>1, <1>2, <1>6 DEF Registered, Inbound
<1> QED
  BY <1>2, <1>3, <1>7, <1>8, HandlerKeeps DEF Stages

LEMMA AnswerKeeps ==
  ASSUME PeerInv, NEW n \in Nodes, NEW c \in Conns, HandleVersion(n, c),
         ~Inbound(n, c), Answer(n, c)
  PROVE  PeerInv'
<1> DEFINE o == Other(n)
<1> USE DEF PeerInv
<1>1. o \in Nodes /\ o # n /\ Other(o) = n /\ dialer[c] = n
  BY TwoNodes DEF Inbound
<1>2. /\ end[c][n] = "open" /\ chan[c][n] # Silence /\ Head(chan[c][n]) = "version"
      /\ dialer' = dialer /\ end' = end /\ deaf' = deaf /\ table' = table /\ banned' = banned
      /\ stage' = [stage EXCEPT ![c][n] = "version"]
      /\ chan' = Send(Read(n, c), n, c, Ack)
      /\ c \notin deaf[n]
  BY DEF HandleVersion, Answer, Received, Silence, Ack
<1>3. /\ chan' \in Channels /\ \A e \in Conns \ {c} : chan'[e] = chan[e]
      /\ chan'[c][n] = Tail(chan[c][n])
      /\ chan'[c][o] = IF end[c][o] = "closed" THEN chan[c][o] ELSE chan[c][o] \o Ack
  BY <1>2, Talk, ReplyIs DEF Shape
<1>4. PeerOf(n, c) = "listens" /\ PeerOf(n, c)' = "listens"
  BY <1>2 DEF PeerOf
<1>5. LinkState("open", end[c][o], stage[c][n], stage[c][o], chan[c][n], chan[c][o],
                "listens")
  BY <1>1, <1>2, <1>4 DEF Link
<1>6. LinkState("open", end[c][o], "version", stage[c][o], Tail(chan[c][n]), chan'[c][o],
                "listens")
  <2>1. CASE end[c][o] = "closed"
    BY <1>2, <1>3, <1>5, <2>1, AnswerTaken
  <2>2. CASE end[c][o] # "closed"
    BY <1>2, <1>3, <1>5, <2>2, AnswerTaken
  <2> QED
    BY <2>1, <2>2
<1>7. stage'[c][n] = "version" /\ stage'[c][o] = stage[c][o]
  BY <1>1, <1>2 DEF Shape
<1>8. Link(c)'
  BY <1>1, <1>2, <1>3, <1>4, <1>6, <1>7 DEF Link
<1>9. Registered(n, c)
  BY <1>1, <1>2 DEF Registered, Inbound
<1> QED
  BY <1>2, <1>3, <1>8, <1>9, HandlerKeeps DEF Stages

\* The node had no connection to the other, and whatever it is dialling is replaced.
LEMMA AssociateKeeps ==
  ASSUME PeerInv, NEW n \in Nodes, NEW c \in Conns, HandleVersion(n, c),
         Inbound(n, c), Associate(n, c)
  PROVE  PeerInv'
<1> DEFINE o == Other(n)
<1> USE DEF PeerInv
<1>1. /\ o \in Nodes /\ o # n /\ Other(o) = n /\ dialer[c] = o
      /\ \A m \in Nodes : m = n \/ m = o
  BY TwoNodes DEF Shape, Inbound
<1>2. /\ end[c][n] = "open" /\ chan[c][n] # Silence /\ Head(chan[c][n]) = "version"
      /\ dialer' = dialer /\ end' = end /\ banned' = banned
      /\ stage' = [stage EXCEPT ![c][n] = "version"]
      /\ chan' = Send(Read(n, c), n, c, Welcome)
      /\ deaf' = [deaf EXCEPT ![n] = @ \cup Dialling(n)]
      /\ table' = [table EXCEPT ![n] = c]
      /\ ~banned[n] /\ table[n] = 0
  BY DEF HandleVersion, Associate, Rejection, Received, Silence, Welcome
<1>3. /\ chan' \in Channels /\ \A e \in Conns \ {c} : chan'[e] = chan[e]
      /\ chan'[c][n] = Tail(chan[c][n])
      /\ chan'[c][o] = IF end[c][o] = "closed" THEN chan[c][o] ELSE chan[c][o] \o Welcome
  BY <1>2, Talk, ReplyIs DEF Shape
<1>4. /\ deaf'[n] = deaf[n] \cup Dialling(n) /\ deaf'[o] = deaf[o]
      /\ c \notin Dialling(n)
  BY <1>1, <1>2 DEF Shape, Dialling
<1>5. Shape'
  BY <1>1, <1>2, <1>3 DEF Shape, Stages, Dialling
<1>6. ASSUME NEW e \in Conns PROVE Link(e)'
  <2>1. CASE e # c
    <3>1. \A m \in Nodes : (e \in deaf[m] => e \in deaf'[m])
                          /\ (e \in deaf'[m] \ deaf[m] => end[e][m] = "dialling")
      BY <1>1, <1>4 DEF Dialling
    <3> QED
      BY <1>2, <1>3, <2>1, <3>1, OtherLink DEF Shape
  <2>2. CASE e = c
    <3>1. LinkState(end[c][o], "open", stage[c][o], stage[c][n], chan[c][o], chan[c][n],
                    PeerOf(o, c))
      BY <1>1, <1>2 DEF Link
    <3>2. LinkState(end[c][o], "open", stage[c][o], "version", chan'[c][o],
                    Tail(chan[c][n]), PeerOf(o, c))
      <4>1. CASE end[c][o] = "closed"
        BY <1>2, <1>3, <3>1, <4>1, VersionTaken
      <4>2. CASE end[c][o] # "closed"
        BY <1>2, <1>3, <3>1, <4>2, VersionTaken
      <4> QED
        BY <4>1, <4>2
    <3>3. /\ stage'[c][n] = "version" /\ stage'[c][o] = stage[c][o]
          /\ PeerOf(o, c)' = PeerOf(o, c)
      BY <1>1, <1>2, <1>4 DEF Shape, PeerOf
    <3>4. c \notin deaf'[n]
      BY <1>1, <1>4 DEF Link
    <3> QED
      BY <1>1, <1>2, <1>3, <2>2, <3>2, <3>3, <3>4 DEF Link
  <2> QED
    BY <2>1, <2>2
<1>7. Table(o)'
  <2>1. \A e \in Conns : stage'[e][o] = stage[e][o]
    BY <1>1, <1>2 DEF Shape
  <2>2. table'[o] = table[o]
    BY <1>1, <1>2 DEF Shape
  <2> QED
    BY <1>1, <1>2, <1>4, <2>1, <2>2, OtherTable DEF Registered, Inbound, Dialling
<1>8. Table(n)'
  <2>1. \A e \in Conns \ {c} : ~Registered(n, e)'
    <3>1. ASSUME NEW e \in Conns \ {c}, Registered(n, e)' PROVE FALSE
      <4>1. stage'[e][n] = stage[e][n]
        BY <1>1, <1>2 DEF Shape
      <4>2. Registered(n, e)
        BY <1>2, <1>4, <3>1, <4>1 DEF Registered, Inbound
      <4> QED
        BY <1>2, <4>2, PeerAssumption DEF Table
    <3> QED
      BY <3>1
  <2>2. table'[n] = c /\ Dialling(n)' = Dialling(n)
    BY <1>2 DEF Shape, Dialling
  <2> QED
    BY <1>2, <1>4, <2>1, <2>2 DEF Table
<1> QED
  BY <1>1, <1>5, <1>6, <1>7, <1>8

LEMMA VerackKeeps ==
  ASSUME PeerInv, NEW n \in Nodes, NEW c \in Conns, HandleVerack(n, c)
  PROVE  PeerInv'
<1> DEFINE o == Other(n)
           st == IF stage[c][n] = "new" THEN stage[c][n] ELSE "full"
<1> USE DEF PeerInv
<1>1. o \in Nodes /\ o # n /\ Other(o) = n
  BY TwoNodes
<1>2. /\ end[c][n] = "open" /\ chan[c][n] # Silence /\ Head(chan[c][n]) = "verack"
      /\ dialer' = dialer /\ end' = end /\ deaf' = deaf /\ table' = table /\ banned' = banned
      /\ stage' = [stage EXCEPT ![c][n] = st] /\ st \in Stages
      /\ chan' = Read(n, c) /\ c \notin deaf[n]
  BY DEF HandleVerack, Received, Silence, marks, Stages
<1>3. /\ chan' \in Channels /\ \A e \in Conns \ {c} : chan'[e] = chan[e]
      /\ chan'[c][n] = Tail(chan[c][n]) /\ chan'[c][o] = chan[c][o]
  BY <1>2, ReadIs DEF Shape
<1>4. stage'[c][n] = st /\ stage'[c][o] = stage[c][o] /\ PeerOf(o, c)' = PeerOf(o, c)
  BY <1>1, <1>2 DEF Shape, PeerOf
<1>5. CASE dialer[c] = n
  <2>1. PeerOf(n, c) = "listens" /\ PeerOf(n, c)' = "listens"
    BY <1>2 DEF PeerOf
  <2>2. LinkState("open", end[c][o], stage[c][n], stage[c][o], chan[c][n], chan[c][o],
                  "listens")
    BY <1>2, <1>5, <2>1 DEF Link
  <2>3. LinkState("open", end[c][o], st, stage[c][o], Tail(chan[c][n]), chan[c][o], "listens")
    BY <1>2, <2>2, DialerVerack
  <2>4. Link(c)'
    BY <1>1, <1>2, <1>3, <1>4, <1>5, <2>1, <2>3 DEF Link
  <2>5. Registered(n, c)
    BY <1>2, <1>5 DEF Registered, Inbound
  <2> QED
    BY <1>2, <1>3, <2>4, <2>5, HandlerKeeps
<1>6. CASE dialer[c] # n
  <2>1. dialer[c] = o
    BY <1>1, <1>6, TwoNodes DEF Shape
  <2>2. LinkState(end[c][o], "open", stage[c][o], stage[c][n], chan[c][o], chan[c][n],
                  PeerOf(o, c))
    BY <1>1, <1>2, <2>1 DEF Link
  <2>3. /\ stage[c][n] = "version"
        /\ LinkState(end[c][o], "open", stage[c][o], "full", chan[c][o], Tail(chan[c][n]),
                     PeerOf(o, c))
    BY <1>2, <2>2, AcceptorVerack
  <2>4. Link(c)'
    BY <1>1, <1>2, <1>3, <1>4, <2>1, <2>3 DEF Link
  <2>5. Registered(n, c)
    BY <1>2, <2>3 DEF Registered
  <2> QED
    BY <1>2, <1>3, <2>4, <2>5, HandlerKeeps
<1> QED
  BY <1>5, <1>6

\* Only who dialled gets what it does not listen to.
LEMMA IgnoreKeeps ==
  ASSUME PeerInv, NEW n \in Nodes, NEW c \in Conns, Ignore(n, c)
  PROVE  PeerInv'
<1> DEFINE o == Other(n)
<1> USE DEF PeerInv
<1>1. o \in Nodes /\ o # n /\ Other(o) = n
  BY TwoNodes
<1>2. /\ end[c][n] = "open" /\ chan[c][n] # Silence
      /\ \/ Head(chan[c][n]) = "reject"
         \/ c \in deaf[n] /\ Head(chan[c][n]) \in {"version", "verack"}
      /\ dialer' = dialer /\ end' = end /\ stage' = stage
      /\ deaf' = deaf /\ table' = table /\ banned' = banned
      /\ chan' = Read(n, c)
  BY DEF Ignore, Received, Silence, marks
<1>3. /\ chan' \in Channels /\ \A e \in Conns \ {c} : chan'[e] = chan[e]
      /\ chan'[c][n] = Tail(chan[c][n]) /\ chan'[c][o] = chan[c][o]
  BY <1>2, ReadIs DEF Shape
<1>4. dialer[c] = n
  <2>1. SUFFICES ASSUME dialer[c] = o PROVE FALSE
    BY <1>1, TwoNodes DEF Shape
  <2>2. LinkState(end[c][o], "open", stage[c][o], stage[c][n], chan[c][o], chan[c][n],
                  PeerOf(o, c))
    BY <1>1, <1>2, <2>1 DEF Link
  <2>3. c \notin deaf[n]
    BY <1>1, <2>1 DEF Link
  <2> QED
    BY <1>2, <2>2, <2>3, NeverRefused
<1>5. LinkState("open", end[c][o], stage[c][n], stage[c][o], chan[c][n], chan[c][o],
                PeerOf(n, c))
  BY <1>2, <1>4 DEF Link
<1>6. LinkState("open", end[c][o], stage[c][n], stage[c][o], Tail(chan[c][n]), chan[c][o],
                PeerOf(n, c))
  BY <1>2, <1>5, Ignored DEF PeerOf
<1>7. Link(c)'
  BY <1>1, <1>2, <1>3, <1>4, <1>6 DEF Link, PeerOf
<1>8. stage' = [stage EXCEPT ![c][n] = stage[c][n]] /\ stage[c][n] \in Stages
  BY <1>2 DEF Shape
<1>9. Registered(n, c)' => Registered(n, c)
  BY <1>2 DEF Registered, Inbound
<1> QED
  BY <1>2, <1>3, <1>7, <1>8, <1>9, HandlerKeeps

\* A free connection is taken.
LEMMA DialKeeps ==
  ASSUME PeerInv, NEW n \in Nodes, Dial(n)
  PROVE  PeerInv'
<1> DEFINE o == Other(n)
<1> USE DEF PeerInv
<1>1. /\ o \in Nodes /\ o # n /\ Other(o) = n
      /\ \A m \in Nodes : m = n \/ m = o
  BY TwoNodes
<1>2. PICK c \in Conns :
        /\ \A m \in Nodes : end[c][m] = "closed"
        /\ dialer' = [dialer EXCEPT ![c] = n]
        /\ end' = [end EXCEPT ![c][n] = "dialling", ![c][Other(n)] = "pending"]
        /\ stage' = [stage EXCEPT ![c] = [m \in Nodes |-> "new"]]
  BY DEF Dial, Free
<1>3. /\ chan' = chan /\ deaf' = deaf /\ table' = table /\ banned' = banned
      /\ table[n] = 0 /\ ~banned[n] /\ \A e \in Conns : end[e][n] # "dialling"
  BY DEF Dial, FindBestPeers, Dialling, marks
<1>4. /\ dialer'[c] = n /\ end'[c][n] = "dialling" /\ end'[c][o] = "pending"
      /\ stage'[c][n] = "new" /\ stage'[c][o] = "new"
  BY <1>1, <1>2 DEF Shape
<1>5. \A e \in Conns \ {c} : /\ dialer'[e] = dialer[e] /\ end'[e] = end[e]
                             /\ stage'[e] = stage[e] /\ chan'[e] = chan[e]
  BY <1>2, <1>3 DEF Shape
<1>6. /\ c \notin deaf[n] /\ c \notin deaf[o]
      /\ chan[c][n] = Silence /\ chan[c][o] = Silence
  <2> DEFINE d == dialer[c]
             a == Other(d)
  <2>1. d \in Nodes /\ a \in Nodes /\ ((d = n /\ a = o) \/ (d = o /\ a = n))
    BY <1>1, TwoNodes DEF Shape
  <2>2. /\ LinkState("closed", "closed", stage[c][d], stage[c][a], chan[c][d], chan[c][a],
                     PeerOf(d, c))
        /\ c \notin deaf[a]
    BY <1>2, <2>1 DEF Link
  <2>3. chan[c][d] = Silence /\ chan[c][a] = Silence /\ PeerOf(d, c) # "replaced"
    BY <2>2 DEF LinkState, BeingDialled, ToBeAccepted, ClosedByAcceptor, ClosedByDialer
  <2> QED
    BY <2>1, <2>2, <2>3 DEF PeerOf
<1>7. Shape'
  BY <1>1, <1>2, <1>3 DEF Shape, Ends, Stages
<1>8. ASSUME NEW e \in Conns PROVE Link(e)'
  <2>1. CASE e # c
    BY <1>3, <1>5, <2>1, OtherLink
  <2>2. CASE e = c
    <3>1. LinkState("dialling", "pending", "new", "new", Silence, Silence, "listens")
      BY DEF LinkState, BeingDialled
    <3> QED
      BY <1>3, <1>4, <1>6, <2>2, <3>1 DEF Link, PeerOf
  <2> QED
    BY <2>1, <2>2
<1>9. ASSUME NEW m \in Nodes, NEW e \in Conns PROVE Registered(m, e)' => Registered(m, e)
  <2>1. CASE e # c
    BY <1>3, <1>5, <2>1 DEF Registered, Inbound
  <2>2. CASE e = c
    BY <1>1, <1>4, <2>2 DEF Registered
  <2> QED
    BY <2>1, <2>2
<1>10. Table(o)'
  <2>1. \A e \in Conns : e \in Dialling(o)' => e \in Dialling(o)
    BY <1>1, <1>4, <1>5 DEF Dialling
  <2> QED
    BY <1>1, <1>3, <1>9, <2>1, OtherTable
<1>11. Table(n)'
  <2>1. \A e \in Dialling(n)' : e = c
    BY <1>3, <1>5 DEF Dialling
  <2> QED
    BY <1>3, <1>9, <2>1 DEF Table
<1> QED
  BY <1>1, <1>7, <1>8, <1>10, <1>11

\* A banned node is hung up on; the other waits for its version.
LEMMA AcceptKeeps ==
  ASSUME PeerInv, NEW n \in Nodes, NEW c \in Conns, Accept(n, c)
  PROVE  PeerInv'
<1> DEFINE o == Other(n)
<1> USE DEF PeerInv
<1>1. /\ o \in Nodes /\ o # n /\ Other(o) = n
      /\ \A m \in Nodes : m = n \/ m = o
  BY TwoNodes
<1>2. /\ end[c][n] = "pending" /\ dialer' = dialer /\ stage' = stage
      /\ deaf' = deaf /\ table' = table /\ banned' = banned
  BY DEF Accept, marks
<1>3. dialer[c] = o /\ stage[c][n] = "new"
  <2>1. CASE dialer[c] = n
    BY <1>2, <2>1 DEF Link, LinkState, BeingDialled, ToBeAccepted, ClosedByAcceptor,
                      ClosedByDialer
  <2>2. CASE dialer[c] = o
    BY <1>1, <1>2, <2>2 DEF Link, LinkState, BeingDialled, ToBeAccepted, ClosedByAcceptor,
                            ClosedByDialer
  <2> QED
    BY <1>1, <2>1, <2>2 DEF Shape
<1>4. LinkState(end[c][o], "open", stage[c][o], stage[c][n], chan[c][o], chan[c][n],
                PeerOf(o, c))
  BY <1>1, <1>2, <1>3, Accepts DEF Link
<1>5. /\ \A e \in Conns \ {c} : end'[e] = end[e] /\ chan'[e] = chan[e]
      /\ end'[c][n] \in {"open", "closed"} /\ end'[c][o] = end[c][o]
      /\ end' \in [Conns -> [Nodes -> Ends]] /\ chan' \in Channels
      /\ LinkState(end[c][o], end'[c][n], stage[c][o], stage[c][n], chan'[c][o], chan'[c][n],
                   PeerOf(o, c))
  <2>1. CASE banned[n]
    <3>1. /\ end' = [end EXCEPT ![c][n] = "closed"]
          /\ chan' = [Send(chan, n, c, <<"close">>) EXCEPT ![c][n] = << >>]
      BY <2>1 DEF Accept
    <3>2. /\ chan' \in Channels /\ \A e \in Conns \ {c} : chan'[e] = chan[e]
          /\ chan'[c][n] = Silence
          /\ chan'[c][o] = IF end[c][o] = "closed" THEN chan[c][o] ELSE chan[c][o] \o Bye
      BY <3>1, CloseIs DEF Shape
    <3>3. LinkState(end[c][o], "closed", stage[c][o], stage[c][n], chan'[c][o], Silence,
                    PeerOf(o, c))
      <4>1. CASE end[c][o] = "closed"
        BY <1>4, <3>2, <4>1, AcceptorCloses
      <4>2. CASE end[c][o] # "closed"
        BY <1>4, <3>2, <4>2, AcceptorCloses
      <4> QED
        BY <4>1, <4>2
    <3>4. /\ \A e \in Conns \ {c} : end'[e] = end[e]
          /\ end'[c][n] = "closed" /\ end'[c][o] = end[c][o]
          /\ end' \in [Conns -> [Nodes -> Ends]]
      BY <1>1, <3>1 DEF Shape, Ends
    <3> QED
      BY <3>2, <3>3, <3>4
  <2>2. CASE ~banned[n]
    <3>1. end' = [end EXCEPT ![c][n] = "open"] /\ chan' = chan
      BY <2>2 DEF Accept
    <3>2. /\ \A e \in Conns \ {c} : end'[e] = end[e]
          /\ end'[c][n] = "open" /\ end'[c][o] = end[c][o]
          /\ end' \in [Conns -> [Nodes -> Ends]]
      BY <1>1, <3>1 DEF Shape, Ends
    <3> QED
      BY <1>4, <3>1, <3>2 DEF Shape
  <2> QED
    BY <2>1, <2>2
<1>6. Shape'
  BY <1>2, <1>5 DEF Shape
<1>7. ASSUME NEW e \in Conns PROVE Link(e)'
  <2>1. CASE e # c
    BY <1>2, <1>5, <2>1, OtherLink
  <2>2. CASE e = c
    BY <1>1, <1>2, <1>3, <1>5, <2>2 DEF Link, PeerOf
  <2> QED
    BY <2>1, <2>2
<1>8. ASSUME NEW m \in Nodes PROVE Table(m)'
  <2>1. ASSUME NEW e \in Conns PROVE Registered(m, e)' => Registered(m, e)
    <3>1. CASE e # c
      BY <1>2, <1>5, <3>1 DEF Registered, Inbound
    <3>2. CASE e = c
      BY <1>1, <1>2, <1>3, <1>5, <3>2 DEF Registered, Inbound
    <3> QED
      BY <3>1, <3>2
  <2>2. \A e \in Conns : e \in Dialling(m)' => e \in Dialling(m)
    BY <1>1, <1>5 DEF Dialling
  <2> QED
    BY <1>2, <2>1, <2>2, OtherTable
<1> QED
  BY <1>6, <1>7, <1>8

\* The dial ends well: unless its Peer was replaced, the table was empty till now.
LEMMA DialledKeeps ==
  ASSUME PeerInv, NEW n \in Nodes, NEW c \in Conns, Dialled(n, c)
  PROVE  PeerInv'
<1> DEFINE o == Other(n)
<1> USE DEF PeerInv
<1>1. /\ o \in Nodes /\ o # n /\ Other(o) = n
      /\ \A m \in Nodes : m = n \/ m = o
  BY TwoNodes
<1>2. /\ end[c][n] = "dialling" /\ dialer' = dialer /\ stage' = stage
      /\ deaf' = deaf /\ banned' = banned
      /\ end' = [end EXCEPT ![c][n] = "open"]
      /\ table' = IF c \in deaf[n] THEN table ELSE [table EXCEPT ![n] = c]
      /\ chan' = Send(chan, n, c, Hello)
  BY DEF Dialled, marks, Hello
<1>3. /\ chan' \in Channels /\ \A e \in Conns \ {c} : chan'[e] = chan[e]
      /\ chan'[c][n] = chan[c][n]
      /\ chan'[c][o] = IF end[c][o] = "closed" THEN chan[c][o] ELSE chan[c][o] \o Hello
  <2>1. Hello \in Words /\ chan \in Channels
    BY Talk DEF Shape
  <2> QED
    BY <1>2, <2>1, SendIs
<1>4. dialer[c] = n
  BY <1>1, <1>2 DEF Shape, Link, LinkState, BeingDialled, ToBeAccepted, ClosedByAcceptor,
                    ClosedByDialer
<1>5. LinkState("dialling", end[c][o], stage[c][n], stage[c][o], chan[c][n], chan[c][o],
                PeerOf(n, c))
  BY <1>2, <1>4 DEF Link
<1>6. LinkState("open", end[c][o], stage[c][n], stage[c][o], chan[c][n], chan'[c][o],
                PeerOf(n, c))
  <2>1. CASE end[c][o] = "closed"
    BY <1>3, <1>5, <2>1, DialEnds
  <2>2. CASE end[c][o] # "closed"
    BY <1>3, <1>5, <2>2, DialEnds
  <2> QED
    BY <2>1, <2>2
<1>7. /\ end'[c][n] = "open" /\ end'[c][o] = end[c][o]
      /\ \A e \in Conns \ {c} : end'[e] = end[e]
      /\ end' \in [Conns -> [Nodes -> Ends]]
  BY <1>1, <1>2 DEF Shape, Ends
<1>8. Shape'
  BY <1>2, <1>3, <1>7 DEF Shape
<1>9. ASSUME NEW e \in Conns PROVE Link(e)'
  <2>1. CASE e # c
    BY <1>2, <1>3, <1>7, <2>1, OtherLink
  <2>2. CASE e = c
    BY <1>1, <1>2, <1>3, <1>4, <1>6, <1>7, <2>2 DEF Link, PeerOf
  <2> QED
    BY <2>1, <2>2
<1>10. ASSUME NEW m \in Nodes, NEW e \in Conns, m # n \/ e # c
       PROVE  /\ Registered(m, e)' => Registered(m, e)
              /\ e \in Dialling(m)' => e \in Dialling(m)
  <2>1. end'[e][m] = end[e][m] /\ stage'[e][m] = stage[e][m] /\ (m = n \/ m = o)
    BY <1>1, <1>2, <1>7, <1>10
  <2> QED
    BY <1>2, <2>1 DEF Registered, Inbound, Dialling
<1>11. Table(o)'
  <2>1. table'[o] = table[o]
    BY <1>1, <1>2 DEF Shape
  <2>2. \A e \in Conns : /\ Registered(o, e)' => Registered(o, e)
                         /\ e \in Dialling(o)' => e \in Dialling(o)
    BY <1>1, <1>10
  <2> QED
    BY <1>1, <1>2, <2>1, <2>2, OtherTable
<1>12. Table(n)'
  <2>1. Dialling(n)' = {}
    BY <1>2, <1>7 DEF Table, Dialling
  <2>2. CASE c \in deaf[n]
    <3>1. ~Registered(n, c)'
      BY <1>2, <2>2 DEF Registered
    <3> QED
      BY <1>2, <1>10, <2>1, <2>2, <3>1 DEF Table
  <2>3. CASE c \notin deaf[n]
    <3>1. table[n] = 0 /\ ~banned[n] /\ table'[n] = c
      BY <1>2, <2>3 DEF Table, Dialling, Shape
    <3>2. \A e \in Conns : ~Registered(n, e)
      BY <3>1, PeerAssumption DEF Table
    <3> QED
      BY <1>2, <1>10, <2>1, <3>1, <3>2 DEF Table
  <2> QED
    BY <2>2, <2>3
<1> QED
  BY <1>1, <1>8, <1>9, <1>11, <1>12

LEMMA DialFailsKeeps ==
  ASSUME PeerInv, NEW n \in Nodes, NEW c \in Conns, DialFails(n, c)
  PROVE  PeerInv'
<1> DEFINE o == Other(n)
<1> USE DEF PeerInv
<1>1. /\ o \in Nodes /\ o # n /\ Other(o) = n
      /\ \A m \in Nodes : m = n \/ m = o
  BY TwoNodes
<1>2. /\ end[c][n] = "dialling" /\ end[c][o] = "pending"
      /\ dialer' = dialer /\ stage' = stage /\ chan' = chan /\ table' = table
      /\ banned' = banned
      /\ end' = [end EXCEPT ![c] = [m \in Nodes |-> "closed"]]
      /\ deaf' = [deaf EXCEPT ![n] = @ \ {c}]
  BY DEF DialFails
<1>3. dialer[c] = n
  BY <1>1, <1>2 DEF Shape, Link, LinkState, BeingDialled, ToBeAccepted, ClosedByAcceptor,
                    ClosedByDialer
<1>4. LinkState("dialling", "pending", stage[c][n], stage[c][o], chan[c][n], chan[c][o],
                PeerOf(n, c))
  BY <1>2, <1>3 DEF Link
<1>5. LinkState("closed", "closed", stage[c][n], stage[c][o], chan[c][n], chan[c][o],
                "listens")
  BY <1>4, NoConnection
<1>6. /\ end'[c][n] = "closed" /\ end'[c][o] = "closed"
      /\ \A e \in Conns \ {c} : end'[e] = end[e]
      /\ c \notin deaf'[n] /\ deaf'[o] = deaf[o]
      /\ \A e \in Conns \ {c} : (e \in deaf'[n]) = (e \in deaf[n])
  BY <1>1, <1>2 DEF Shape
<1>7. Shape'
  BY <1>1, <1>2 DEF Shape, Ends
<1>8. ASSUME NEW e \in Conns PROVE Link(e)'
  <2>1. CASE e # c
    BY <1>1, <1>2, <1>6, <2>1, OtherLink
  <2>2. CASE e = c
    <3>1. c \notin deaf'[o] /\ PeerOf(n, c)' = "listens"
      BY <1>1, <1>3, <1>6 DEF Link, PeerOf
    <3> QED
      BY <1>1, <1>2, <1>3, <1>5, <1>6, <2>2, <3>1 DEF Link
  <2> QED
    BY <2>1, <2>2
<1>9. ASSUME NEW m \in Nodes PROVE Table(m)'
  <2>1. \A e \in Conns \ {c} : (e \in deaf'[m]) = (e \in deaf[m])
    BY <1>1, <1>6
  <2>2. end'[c][m] = "closed"
    BY <1>1, <1>6
  <2>3. \A e \in Conns : /\ Registered(m, e)' => Registered(m, e)
                         /\ e \in Dialling(m)' => e \in Dialling(m) /\ e # c
    BY <1>2, <1>6, <2>1, <2>2 DEF Registered, Inbound, Dialling
  <2> QED
    BY <1>2, <2>1, <2>3, OtherTable
<1> QED
  BY <1>7, <1>8, <1>9

\* Nothing happens to the connections; a ban may pass.
LEMMA QuietKeeps ==
  ASSUME PeerInv, UNCHANGED ends, \A m \in Nodes : banned'[m] => banned[m],
         banned' \in [Nodes -> BOOLEAN]
  PROVE  PeerInv'
<1> USE DEF PeerInv
<1>1. /\ dialer' = dialer /\ end' = end /\ stage' = stage /\ chan' = chan
      /\ deaf' = deaf /\ table' = table
  BY DEF ends
<1>2. Shape'
  BY <1>1 DEF Shape
<1>3. ASSUME NEW c \in Conns PROVE Link(c)'
  BY <1>1, OtherLink
<1>4. ASSUME NEW m \in Nodes PROVE Table(m)'
  BY <1>1, OtherTable DEF Registered, Inbound, Dialling
<1> QED
  BY <1>2, <1>3, <1>4

\* Every step keeps the invariant.
LEMMA StepPeer == PeerInv /\ [Next]_vars => PeerInv'
<1> SUFFICES ASSUME PeerInv, [Next]_vars PROVE PeerInv'
  OBVIOUS
<1> Shape
  BY DEF PeerInv
<1>1. ASSUME NEW n \in Nodes, Dial(n) PROVE PeerInv'
  BY <1>1, DialKeeps
<1>2. ASSUME NEW n \in Nodes, RestrictionEnds(n) PROVE PeerInv'
  BY <1>2, QuietKeeps DEF RestrictionEnds, Shape
<1>3. ASSUME NEW n \in Nodes, BanEnds(n) PROVE PeerInv'
  BY <1>3, QuietKeeps DEF BanEnds, Shape
<1>4. ASSUME NEW n \in Nodes, NEW c \in Conns, Accept(n, c) PROVE PeerInv'
  BY <1>4, AcceptKeeps
<1>5. ASSUME NEW n \in Nodes, NEW c \in Conns, Dialled(n, c) PROVE PeerInv'
  BY <1>5, DialledKeeps
<1>6. ASSUME NEW n \in Nodes, NEW c \in Conns, DialFails(n, c) PROVE PeerInv'
  BY <1>6, DialFailsKeeps
<1>7. ASSUME NEW n \in Nodes, NEW c \in Conns, Handle(n, c) PROVE PeerInv'
  <2>1. CASE HandleVersion(n, c)
    <3>1. CASE Inbound(n, c) /\ Refuse(n, c)
      BY <2>1, <3>1, RefuseKeeps
    <3>2. CASE Inbound(n, c) /\ Associate(n, c)
      BY <2>1, <3>2, AssociateKeeps
    <3>3. CASE ~Inbound(n, c) /\ Answer(n, c)
      BY <2>1, <3>3, AnswerKeeps
    <3> QED
      BY <2>1, <3>1, <3>2, <3>3 DEF HandleVersion
  <2>2. CASE HandleVerack(n, c)
    BY <2>2, VerackKeeps
  <2>3. CASE Ignore(n, c)
    BY <2>3, IgnoreKeeps
  <2>4. CASE HandleClose(n, c)
    BY <2>4, HandleCloseKeeps
  <2> QED
    BY <1>7, <2>1, <2>2, <2>3, <2>4 DEF Handle
<1>8. ASSUME NEW n \in Nodes, NEW c \in Conns,
             RefusalEnds(n, c) \/ LifetimeEnds(n, c) \/ Cut(n, c)
      PROVE  PeerInv'
  <2>1. Close(n, c) /\ banned' = banned
    BY <1>8 DEF RefusalEnds, LifetimeEnds, Cut, Disconnect
  <2> QED
    BY <2>1, CloseKeeps
<1>9. ASSUME NEW n \in Nodes, NEW c \in Conns, Ban(n, c) PROVE PeerInv'
  <2>1. Close(n, c) /\ FullyConnected(n, c) /\ banned' = [banned EXCEPT ![n] = TRUE]
    BY <1>9 DEF Ban, Disconnect
  <2> QED
    BY <2>1, CloseKeeps
<1>10. CASE UNCHANGED vars
  BY <1>10, QuietKeeps DEF vars, marks, Shape
<1>11. CASE Next
  <2>1. PICK n \in Nodes :
          \/ Dial(n) \/ RestrictionEnds(n) \/ BanEnds(n)
          \/ \E c \in Conns : \/ Accept(n, c) \/ Dialled(n, c) \/ DialFails(n, c)
                              \/ Handle(n, c) \/ RefusalEnds(n, c)
                              \/ LifetimeEnds(n, c) \/ Cut(n, c) \/ Ban(n, c)
    BY <1>11 DEF Next
  <2> QED
    BY <1>1, <1>2, <1>3, <1>4, <1>5, <1>6, <1>7, <1>8, <1>9, <2>1
<1> QED
  BY <1>10, <1>11

-----------------------------------------------------------------------------
(***************************************************************************)
(* The theorems.                                                           *)
(***************************************************************************)
LEMMA PeerInvariant == Spec => []PeerInv
<1>1. Init => PeerInv
  BY InitPeer
<1>2. PeerInv /\ [Next]_vars => PeerInv'
  BY StepPeer
<1> QED
  BY <1>1, <1>2, PTL DEF Spec

\* An end that is fully connected is registered.
LEMMA FullIsRegistered ==
  ASSUME PeerInv, NEW n \in Nodes, NEW c \in Conns, FullyConnected(n, c)
  PROVE  Registered(n, c)
<1>1. n = dialer[c] \/ n = Other(dialer[c])
  BY TwoNodes DEF PeerInv, Shape
<1>2. c \notin deaf[n]
  BY <1>1 DEF PeerInv, FullyConnected, Link, LinkState, PeerOf
<1> QED
  BY <1>2 DEF Registered, FullyConnected

\* However dials, answers, refusals, replacements, bans and disconnections of two nodes
\* fall, a node is fully connected to the other over one connection at most, the one in
\* its table, and to nobody it has banned (addPeer, associatePeer).
THEOREM PeersOneLink == Spec => []OneLink
<1>1. PeerInv => OneLink
  <2> SUFFICES ASSUME PeerInv, NEW n \in Nodes, NEW c \in Conns, FullyConnected(n, c)
               PROVE  table[n] = c /\ ~banned[n]
    BY DEF OneLink
  <2> QED
    BY FullIsRegistered DEF PeerInv, Table
<1> QED
  BY <1>1, PeerInvariant, PTL

\* Who takes itself to be fully connected has been accepted by the other, which holds the
\* connection in its table and has the version, or has closed it (_handleVersionMessage,
\* _handleVerackMessage).
THEOREM PeersAgree == Spec => []BothAgree
<1>1. PeerInv => BothAgree
  <2> SUFFICES ASSUME PeerInv, NEW n \in Nodes, NEW c \in Conns, FullyConnected(n, c),
                      end[c][Other(n)] # "closed"
               PROVE  table[Other(n)] = c /\ stage[c][Other(n)] \in {"version", "full"}
    BY DEF BothAgree
  <2> DEFINE o == Other(n)
  <2>1. o \in Nodes /\ o # n /\ Other(o) = n
    BY TwoNodes
  <2>2. CASE dialer[c] = n
    <3>1. LinkState("open", end[c][o], "full", stage[c][o], chan[c][n], chan[c][o],
                    PeerOf(n, c))
          /\ c \notin deaf[o]
      BY <2>2 DEF PeerInv, Link, FullyConnected
    <3>2. end[c][o] = "open" /\ stage[c][o] \in {"version", "full"}
      BY <3>1 DEF LinkState, BeingDialled, ToBeAccepted, ClosedByAcceptor, ClosedByDialer,
                  ShakingHands, Unheard
    <3>3. Registered(o, c)
      BY <3>1, <3>2 DEF Registered
    <3> QED
      BY <2>1, <3>2, <3>3 DEF PeerInv, Table
  <2>3. CASE dialer[c] = o
    <3>1. LinkState(end[c][o], "open", stage[c][o], "full", chan[c][o], chan[c][n],
                    PeerOf(o, c))
      BY <2>1, <2>3 DEF PeerInv, Link, FullyConnected
    <3>2. end[c][o] = "open" /\ stage[c][o] \in {"version", "full"} /\ c \notin deaf[o]
      BY <3>1 DEF LinkState, BeingDialled, ToBeAccepted, ClosedByAcceptor, ClosedByDialer,
                  ShakingHands, Unheard, PeerOf
    <3>3. Registered(o, c)
      BY <3>2 DEF Registered
    <3> QED
      BY <2>1, <3>2, <3>3 DEF PeerInv, Table
  <2> QED
    BY <2>2, <2>3, TwoNodes DEF PeerInv, Shape
<1> QED
  BY <1>1, PeerInvariant, PTL

\* A connection that rests with both ends open has completed its handshake at both, but
\* where the node that dialled replaced its Peer meanwhile (associatePeer).
THEOREM PeersSettle == Spec => []SettledIsFull
<1>1. PeerInv => SettledIsFull
  <2> SUFFICES ASSUME PeerInv, NEW c \in Conns,
                      \A n \in Nodes : /\ end[c][n] = "open" /\ chan[c][n] = << >>
                                       /\ stage[c][n] # "refused",
                      c \notin deaf[dialer[c]]
               PROVE  \A n \in Nodes : FullyConnected(n, c)
    BY DEF SettledIsFull
  <2> DEFINE d == dialer[c]
             a == Other(d)
  <2>1. d \in Nodes /\ a \in Nodes /\ \A n \in Nodes : n = d \/ n = a
    BY TwoNodes DEF PeerInv, Shape
  <2>2. /\ LinkState("open", "open", stage[c][d], stage[c][a], Silence, Silence, "listens")
        /\ stage[c][a] # "refused"
    BY <2>1 DEF PeerInv, Link, PeerOf, Silence
  <2>3. stage[c][d] = "full" /\ stage[c][a] = "full"
    BY <2>2, Talk DEF LinkState, BeingDialled, ToBeAccepted, ClosedByAcceptor,
                      ClosedByDialer, ShakingHands
  <2> QED
    BY <2>1, <2>3 DEF FullyConnected
<1> QED
  BY <1>1, PeerInvariant, PTL
=============================================================================
