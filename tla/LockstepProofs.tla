--------------------------- MODULE LockstepProofs ---------------------------
(***************************************************************************)
(* For any number of peers: the types, the order in which each engine is   *)
(* given the turns of another, and that every turn reaches the engine it   *)
(* came from.                                                              *)
(*                                                                         *)
(* A turn of a guest can come to an engine by two channels, the guest's    *)
(* and the host's.  The inductive invariant says that for one sender and   *)
(* one receiver only one of the two is ever used (Routed), and that the    *)
(* places a turn passes, the channel to the host, the host's channel and   *)
(* the log, hold the turns of its sender in order, the later place the     *)
(* earlier turns (the conjuncts named Ahead).                              *)
(***************************************************************************)
EXTENDS Lockstep, SequenceTheorems, TLAPS

Joined == {"connected", "leaving", "left"}

Less(m, n) == m.from = n.from => m.turn < n.turn
AllLess(s, m) == \A i \in DOMAIN s : Less(s[i], m)
LessThanAll(m, t) == \A j \in DOMAIN t : Less(m, t[j])
Sorted(s) == \A i, j \in DOMAIN s : i < j => Less(s[i], s[j])
Ahead(s, t) == \A i \in DOMAIN s : \A j \in DOMAIN t : Less(s[i], t[j])

-----------------------------------------------------------------------------
(* Sequences of turns.                                                     *)

LEMMA AppendFacts ==
  ASSUME NEW s \in Seq(Messages), NEW m \in Messages
  PROVE  /\ Append(s, m) \in Seq(Messages)
         /\ \A i \in DOMAIN Append(s, m) :
              \/ i \in DOMAIN s /\ Append(s, m)[i] = s[i]
              \/ i = Len(s) + 1 /\ Append(s, m)[i] = m
         /\ \A i \in DOMAIN s : i \in 1..Len(s)
OBVIOUS

LEMMA TailFacts ==
  ASSUME NEW s \in Seq(Messages), s # << >>
  PROVE  /\ Head(s) \in Messages
         /\ 1 \in DOMAIN s /\ s[1] = Head(s)
         /\ Tail(s) \in Seq(Messages)
         /\ \A i \in DOMAIN Tail(s) :
              i \in Nat \ {0} /\ i + 1 \in DOMAIN s /\ Tail(s)[i] = s[i + 1]
OBVIOUS

LEMMA SortedAppend ==
  ASSUME NEW s \in Seq(Messages), NEW m \in Messages, Sorted(s), AllLess(s, m)
  PROVE  Sorted(Append(s, m))
<1> SUFFICES ASSUME NEW i \in DOMAIN Append(s, m), NEW j \in DOMAIN Append(s, m),
                    i < j
             PROVE  Less(Append(s, m)[i], Append(s, m)[j])
  BY DEF Sorted
<1>1. i \in DOMAIN s /\ Append(s, m)[i] = s[i]
  BY AppendFacts
<1> QED
  BY <1>1, AppendFacts DEF Sorted, AllLess

\* What a sequence that may have grown by a turn holds.
LEMMA GrownElement ==
  ASSUME NEW s \in Seq(Messages), NEW m \in Messages, NEW t,
         t = s \/ t = Append(s, m), NEW i \in DOMAIN t
  PROVE  (i \in DOMAIN s /\ t[i] = s[i]) \/ (t = Append(s, m) /\ t[i] = m)
<1>1. CASE t = s
  BY <1>1
<1>2. CASE t = Append(s, m)
  BY <1>2, AppendFacts
<1> QED
  BY <1>1, <1>2

LEMMA SortedTail ==
  ASSUME NEW s \in Seq(Messages), s # << >>, Sorted(s)
  PROVE  Sorted(Tail(s)) /\ LessThanAll(Head(s), Tail(s))
<1>1. Sorted(Tail(s))
  BY TailFacts DEF Sorted
<1>2. LessThanAll(Head(s), Tail(s))
  <2> SUFFICES ASSUME NEW j \in DOMAIN Tail(s) PROVE Less(Head(s), Tail(s)[j])
    BY DEF LessThanAll
  <2>1. 1 \in DOMAIN s /\ j + 1 \in DOMAIN s /\ 1 < j + 1
    BY TailFacts
  <2> QED
    BY <2>1, TailFacts DEF Sorted
<1> QED
  BY <1>1, <1>2

LEMMA AheadAppend ==
  ASSUME NEW s \in Seq(Messages), NEW t \in Seq(Messages), NEW m \in Messages,
         Ahead(s, t), AllLess(s, m)
  PROVE  Ahead(s, Append(t, m))
BY AppendFacts DEF Ahead, AllLess

LEMMA AppendAhead ==
  ASSUME NEW s \in Seq(Messages), NEW t \in Seq(Messages), NEW m \in Messages,
         Ahead(s, t), LessThanAll(m, t)
  PROVE  Ahead(Append(s, m), t)
BY AppendFacts DEF Ahead, LessThanAll

LEMMA AheadTail ==
  ASSUME NEW s \in Seq(Messages), NEW t \in Seq(Messages), t # << >>, Ahead(s, t)
  PROVE  Ahead(s, Tail(t)) /\ AllLess(s, Head(t))
<1>1. Ahead(s, Tail(t))
  BY TailFacts DEF Ahead
<1>2. AllLess(s, Head(t))
  BY TailFacts DEF Ahead, AllLess
<1> QED
  BY <1>1, <1>2

LEMMA TailAhead ==
  ASSUME NEW s \in Seq(Messages), NEW t \in Seq(Messages), s # << >>, Ahead(s, t)
  PROVE  Ahead(Tail(s), t) /\ LessThanAll(Head(s), t)
<1>1. Ahead(Tail(s), t)
  BY TailFacts DEF Ahead
<1>2. LessThanAll(Head(s), t)
  BY TailFacts DEF Ahead, LessThanAll
<1> QED
  BY <1>1, <1>2

-----------------------------------------------------------------------------
(* Types.                                                                  *)

LEMMA SendAllType ==
  ASSUME NEW channels \in [Peers -> Seq(Messages)], NEW reached,
         NEW m \in Messages
  PROVE  SendAll(channels, reached, m) \in [Peers -> Seq(Messages)]
BY AppendFacts DEF SendAll

LEMMA DeliverType ==
  ASSUME NEW p \in Peers, NEW m \in Messages, NEW all \in BOOLEAN, TypeOK,
         Deliver(p, m, all)
  PROVE  log' \in [Peers -> Seq(Messages)] /\ threw' \in [Peers -> BOOLEAN]
<1>1. log' \in [Peers -> Seq(Messages)]
  BY AppendFacts DEF TypeOK, Deliver
<1>2. threw' \in [Peers -> BOOLEAN]
  BY DEF TypeOK, Deliver
<1> QED
  BY <1>1, <1>2

\* What send() and #onPacket do to the channels.
Sends(p, reached, m) ==
  network' = [network EXCEPT ![p] = SendAll(@, reached, m)]
TakesAndSends(q, p, reached, m) ==
  network' = [network EXCEPT ![q][p] = Tail(@), ![p] = SendAll(@, reached, m)]

Takes(q, p) == network' = [network EXCEPT ![q][p] = Tail(@)]

\* What one step of a packet does to the channels: it takes the first packet
\* off at most one, and puts one on some channels of another peer.
LEMMA OnPacketChannels ==
  ASSUME NEW p \in Peers, NEW q \in Peers, p # q, NEW reached,
         NEW m \in Messages, TypeOK, network[q][p] # << >>,
         TakesAndSends(q, p, reached, m)
  PROVE  /\ network' \in [Peers -> [Peers -> Seq(Messages)]]
         /\ \A a, b \in Peers :
              \/ a = q /\ b = p /\ network'[a][b] = Tail(network[a][b])
              \/ a = p /\ b \in reached
                 /\ network'[a][b] = Append(network[a][b], m)
              \/ ~(a = q /\ b = p) /\ ~(a = p /\ b \in reached)
                 /\ network'[a][b] = network[a][b]
<1> DEFINE taken == [network EXCEPT ![q][p] = Tail(@)]
<1>1. Tail(network[q][p]) \in Seq(Messages)
  BY TailFacts DEF TypeOK
<1>2. taken \in [Peers -> [Peers -> Seq(Messages)]]
  BY <1>1 DEF TypeOK
<1>3. /\ taken[p] = network[p]
      /\ \A a, b \in Peers : taken[a][b] = IF a = q /\ b = p
                                           THEN Tail(network[a][b])
                                           ELSE network[a][b]
  BY DEF TypeOK
<1>4. SendAll(taken[p], reached, m) \in [Peers -> Seq(Messages)]
  BY <1>2, SendAllType
<1>5. network' = [taken EXCEPT ![p] = SendAll(taken[p], reached, m)]
  BY DEF TypeOK, TakesAndSends
<1> HIDE DEF taken
<1>6. network' \in [Peers -> [Peers -> Seq(Messages)]]
  BY <1>2, <1>4, <1>5
<1>7. \A a, b \in Peers : network'[a][b] = IF a = p
                                           THEN SendAll(taken[p], reached, m)[b]
                                           ELSE taken[a][b]
  BY <1>2, <1>5
<1>8. \A b \in Peers : SendAll(network[p], reached, m)[b] =
                         IF b \in reached THEN Append(network[p][b], m)
                         ELSE network[p][b]
  BY DEF SendAll
<1>9. ASSUME NEW a \in Peers, NEW b \in Peers
      PROVE  \/ a = q /\ b = p /\ network'[a][b] = Tail(network[a][b])
             \/ a = p /\ b \in reached
                /\ network'[a][b] = Append(network[a][b], m)
             \/ ~(a = q /\ b = p) /\ ~(a = p /\ b \in reached)
                /\ network'[a][b] = network[a][b]
  <2>1. CASE a = p
    <3>1. network'[a][b] = SendAll(network[p], reached, m)[b]
      BY <1>3, <1>7, <2>1
    <3> QED
      BY <1>8, <2>1, <3>1
  <2>2. CASE a # p
    <3>1. network'[a][b] = taken[a][b]
      BY <1>7, <2>2
    <3> QED
      BY <1>3, <2>2, <3>1
  <2> QED
    BY <2>1, <2>2
<1> QED
  BY <1>6, <1>9

LEMMA SendChannels ==
  ASSUME NEW p \in Peers, NEW reached, NEW m \in Messages, TypeOK,
         Sends(p, reached, m)
  PROVE  /\ network' \in [Peers -> [Peers -> Seq(Messages)]]
         /\ \A a, b \in Peers :
              \/ a = p /\ b \in reached
                 /\ network'[a][b] = Append(network[a][b], m)
              \/ ~(a = p /\ b \in reached)
                 /\ network'[a][b] = network[a][b]
<1>1. network[p] \in [Peers -> Seq(Messages)]
  BY DEF TypeOK
<1>2. SendAll(network[p], reached, m) \in [Peers -> Seq(Messages)]
  BY <1>1, SendAllType
<1>3. network' \in [Peers -> [Peers -> Seq(Messages)]]
  BY <1>2 DEF TypeOK, Sends
<1>4. \A a, b \in Peers : network'[a][b] = IF a = p
                                           THEN SendAll(network[p], reached, m)[b]
                                           ELSE network[a][b]
  BY DEF TypeOK, Sends
<1> QED
  BY <1>3, <1>4 DEF SendAll

LEMMA TakeChannels ==
  ASSUME NEW p \in Peers, NEW q \in Peers, TypeOK, network[q][p] # << >>,
         Takes(q, p)
  PROVE  /\ network' \in [Peers -> [Peers -> Seq(Messages)]]
         /\ \A a, b \in Peers :
              \/ network'[a][b] = network[a][b]
              \/ /\ network[a][b] # << >>
                 /\ network'[a][b] = Tail(network[a][b])
<1>1. Tail(network[q][p]) \in Seq(Messages)
  BY TailFacts DEF TypeOK
<1> QED
  BY <1>1 DEF TypeOK, Takes

LEMMA InitTypes == Init => TypeOK
BY LockstepAssumption DEF Init, TypeOK, Phases, Messages

\* connect() and the service.
LEMMA ConnectTypes ==
  ASSUME TypeOK, NEW p \in Peers,
         Connect(p) \/ EnterFails(p) \/ ConnectFails(p) \/ Enter(p)
  PROVE  TypeOK'
<1> USE LockstepAssumption DEF TypeOK, Phases
<1>1. CASE Connect(p) \/ EnterFails(p) \/ ConnectFails(p)
  <2>1. UNCHANGED <<peerIds, hostId, handlers, missed, members, cache, network,
                    turns, log, threw>>
    BY <1>1 DEF Connect, EnterFails, ConnectFails, lobbyVars
  <2>2. \/ phase' = [phase EXCEPT ![p] = "requested"]
        \/ phase' = [phase EXCEPT ![p] = "new"]
        \/ phase' = [phase EXCEPT ![p] = "failed"]
    BY <1>1 DEF Connect, EnterFails, ConnectFails, Move
  <2>3. phase' \in [Peers -> Phases]
    BY <2>2
  <2> QED
    BY <2>1, <2>2, <2>3
<1>2. CASE Enter(p)
  <2>1. UNCHANGED <<phase, peerIds, hostId, handlers, missed, cache, network,
                    turns, log, threw>>
    BY <1>2 DEF Enter, seatVars
  <2>2. members' = members \cup {p}
    BY <1>2 DEF Enter
  <2> QED
    BY <2>1, <2>2
<1> QED
  BY <1>1, <1>2

LEMMA SeatTypes ==
  ASSUME TypeOK, NEW p \in Peers,
         Entered(p) \/ Connected(p) \/ MemberStatus(p) \/ Disconnect(p)
  PROVE  TypeOK'
<1> USE LockstepAssumption DEF TypeOK, Phases
<1>1. CASE Entered(p)
  BY <1>1 DEF Entered, Move
<1>2. CASE Connected(p)
  <2>1. UNCHANGED <<handlers, missed, members, cache, network, turns, log, threw>>
    BY <1>2 DEF Connected, lobbyVars
  <2>2. /\ phase' = [phase EXCEPT ![p] = "connected"]
        /\ hostId' = [hostId EXCEPT ![p] = Host]
        /\ peerIds' = [peerIds EXCEPT ![p] = cache[p]]
    BY <1>2 DEF Connected, Move, RefreshPeers
  <2>3. peerIds' \in [Peers -> SUBSET Peers]
    BY <2>2
  <2>4. hostId' \in [Peers -> {Host, Nobody}]
    BY <2>2
  <2>5. phase' \in [Peers -> Phases]
    BY <2>2
  <2>6. \A q \in Peers : phase'[q] = IF q = p THEN "connected" ELSE phase[q]
    BY <2>2
  <2>7. \A q \in Peers : hostId'[q] = IF q = p THEN Host ELSE hostId[q]
    BY <2>2
  <2>8. \A q \in Peers : phase'[q] = "connected" => hostId'[q] = Host
    BY <2>6, <2>7
  <2> QED
    BY <2>1, <2>3, <2>4, <2>5, <2>8
<1>3. CASE MemberStatus(p)
  <2>1. /\ cache' = [cache EXCEPT ![p] = members]
        /\ cache' \in [Peers -> SUBSET Peers]
    BY <1>3 DEF MemberStatus
  <2>2. UNCHANGED <<phase, hostId, handlers, members, network, turns, log, threw>>
    BY <1>3 DEF MemberStatus
  <2>3. peerIds' \in [Peers -> SUBSET Peers]
    BY <1>3, <2>1 DEF MemberStatus, RefreshPeers
  <2>4. missed' \in [Peers -> BOOLEAN]
    BY <1>3 DEF MemberStatus
  <2> QED
    BY <2>1, <2>2, <2>3, <2>4
<1>4. CASE Disconnect(p)
  <2>1. UNCHANGED <<peerIds, hostId, missed, members, cache, network, turns, log,
                    threw>>
    BY <1>4 DEF Disconnect, lobbyVars
  <2>2. /\ handlers' = [handlers EXCEPT ![p] = FALSE]
        /\ handlers' \in [Peers -> BOOLEAN]
    BY <1>4 DEF Disconnect
  <2>3. phase' = [phase EXCEPT ![p] =
                    IF @ \in {"failed", "connected"} THEN "leaving" ELSE @]
    BY <1>4 DEF Disconnect
  <2> QED
    BY <2>1, <2>2, <2>3
<1> QED
  BY <1>1, <1>2, <1>3, <1>4

LEMMA LeftTypes ==
  ASSUME TypeOK, NEW p \in Peers, Left(p)
  PROVE  TypeOK'
<1> USE LockstepAssumption DEF TypeOK, Phases
<1>1. UNCHANGED <<peerIds, hostId, handlers, missed, cache, network, turns, log,
                  threw>>
  BY DEF Left
<1>2. phase[p] = "leaving" /\ phase' = [phase EXCEPT ![p] = "left"]
  BY DEF Left, Move
<1>3. members' \in SUBSET Peers
  BY DEF Left
<1> QED
  BY <1>1, <1>2, <1>3

LEMMA ReachedIsPart ==
  \A targets : \A reached \in Reached(targets) : reached \subseteq targets
BY DEF Reached

\* What send() and #onPacket do, as the proofs below use it.
LEMMA SendFacts ==
  ASSUME TypeOK, NEW p \in Peers, Send(p)
  PROVE  LET m == [from |-> p, turn |-> turns[p] + 1]
         IN  /\ m \in Messages
             /\ phase[p] = "connected"
             /\ turns' = [turns EXCEPT ![p] = turns[p] + 1]
             /\ UNCHANGED <<seatVars, lobbyVars>>
             /\ \E reached :
                  /\ \A b \in reached :
                       b \in Peers /\ b # p /\ (p = Host \/ b = hostId[p])
                  /\ \E all \in BOOLEAN : Deliver(p, m, all)
                  /\ Sends(p, reached, m)
<1> DEFINE m == [from |-> p, turn |-> turns[p] + 1]
<1>1. /\ turns' = [turns EXCEPT ![p] = turns[p] + 1]
      /\ turns'[p] = turns[p] + 1
      /\ turns[p] \in Nat
  BY DEF Send, TypeOK
<1>2. m \in Messages
  BY <1>1 DEF Messages
<1>3. phase[p] = "connected" /\ hostId[p] = Host /\ Host \in Peers
  BY LockstepAssumption DEF Send, TypeOK
<1>4. PICK reached \in Reached(Recipients(p)) :
        /\ Sends(p, reached, m)
        /\ Deliver(p, m, reached = Recipients(p))
  BY <1>1 DEF Send, Sends
<1>5. \A b \in Recipients(p) :
        b \in Peers /\ b # p /\ (p = Host \/ b = hostId[p])
  BY <1>3 DEF Recipients, Others, TypeOK
<1>6. reached \subseteq Recipients(p)
  BY <1>4, ReachedIsPart
<1>7. (reached = Recipients(p)) \in BOOLEAN
  OBVIOUS
<1>8. UNCHANGED <<seatVars, lobbyVars>>
  BY DEF Send
<1>9. \E all \in BOOLEAN : Deliver(p, m, all)
  BY <1>4, <1>7
<1> HIDE DEF m
<1> QED
  BY <1>1, <1>2, <1>3, <1>4, <1>5, <1>6, <1>8, <1>9 DEF m

LEMMA OnPacketFacts ==
  ASSUME TypeOK, NEW p \in Peers, NEW q \in Peers, OnPacket(p, q)
  PROVE  LET m == Head(network[q][p])
         IN  /\ network[q][p] # << >> /\ m \in Messages
             /\ phase[p] = "connected"
             /\ UNCHANGED <<seatVars, lobbyVars, turns>>
             /\ \E reached :
                  /\ \A b \in reached :
                       b \in Peers /\ b # p /\ b # q /\ p = Host
                  /\ \E all \in BOOLEAN : Deliver(p, m, all)
                  /\ TakesAndSends(q, p, reached, m)
<1> DEFINE m == Head(network[q][p])
           targets == IF p = Host THEN Others(p, q) ELSE {}
<1>1. /\ phase[p] = "connected" /\ network[q][p] # << >>
      /\ UNCHANGED <<seatVars, lobbyVars, turns>>
  BY DEF OnPacket
<1>2. m \in Messages
  BY <1>1, TailFacts DEF TypeOK
<1>3. PICK reached \in Reached(targets) :
        /\ TakesAndSends(q, p, reached, m)
        /\ Deliver(p, m, reached = targets)
  BY DEF OnPacket, TakesAndSends
<1>4. \A b \in targets : b \in Peers /\ b # p /\ b # q /\ p = Host
  BY DEF Others, TypeOK
<1>5. reached \subseteq targets
  BY <1>3, ReachedIsPart
<1>6. (reached = targets) \in BOOLEAN
  OBVIOUS
<1>7. \E all \in BOOLEAN : Deliver(p, m, all)
  BY <1>3, <1>6
<1> HIDE DEF m, targets
<1> QED
  BY <1>1, <1>2, <1>3, <1>4, <1>5, <1>7 DEF m

-----------------------------------------------------------------------------
(* The order of turns.                                                     *)

Counted(m) == m.turn <= turns[m.from]

\* A turn in the channel from a to b: a sent it to its host, or relays it.
OnRoute(a, b, m) ==
  /\ a # b /\ b # m.from
  /\ m.from = a \/ (a = Host /\ hostId[m.from] = Host)
  /\ a # Host => b = hostId[a]

Started == \A p \in Peers : turns[p] > 0 => phase[p] \in Joined

AllCounted ==
  /\ \A a, b \in Peers : \A i \in DOMAIN network[a][b] : Counted(network[a][b][i])
  /\ \A p \in Peers : \A i \in DOMAIN log[p] : Counted(log[p][i])

Routed ==
  \A a, b \in Peers : \A i \in DOMAIN network[a][b] : OnRoute(a, b, network[a][b][i])

AllSorted ==
  /\ \A a, b \in Peers : Sorted(network[a][b])
  /\ \A p \in Peers : Sorted(log[p])

\* What an engine was given is ahead of what is still to come to it, ...
LogsAhead == \A a, b \in Peers : Ahead(log[b], network[a][b])

\* ... and of what its host still has to relay.
HostAhead ==
  \A f, r \in Peers : f # Host /\ r # f => Ahead(log[r], network[f][Host])

\* What the host has relayed is ahead of what it still has to relay.
RelayAhead ==
  \A f, r \in Peers :
    f # Host /\ r # Host => Ahead(network[Host][r], network[f][Host])

OrderInv ==
  /\ Started /\ AllCounted /\ Routed /\ AllSorted
  /\ LogsAhead /\ HostAhead /\ RelayAhead

LockstepInv == TypeOK /\ OrderInv

LEMMA InitOrder == Init => OrderInv
<1> SUFFICES ASSUME Init PROVE OrderInv
  OBVIOUS
<1>1. /\ \A a, b \in Peers : network[a][b] = << >>
      /\ \A p \in Peers : log[p] = << >> /\ turns[p] = 0
  BY DEF Init
<1>2. Host \in Peers
  BY LockstepAssumption
<1> QED
  BY <1>1, <1>2 DEF OrderInv, Started, AllCounted, Routed, AllSorted, Sorted,
     LogsAhead, HostAhead, RelayAhead, Ahead

\* A step that moves no turn keeps the order, if who has sent keeps its host.
LEMMA QuietOrder ==
  ASSUME LockstepInv, UNCHANGED <<network, turns, log>>,
         \A q \in Peers : phase[q] \in Joined =>
           phase'[q] \in Joined /\ hostId'[q] = hostId[q]
  PROVE  OrderInv'
<1> USE DEF LockstepInv, OrderInv
<1>1. Started'
  BY DEF Started
<1>2. AllCounted' /\ AllSorted' /\ LogsAhead' /\ HostAhead' /\ RelayAhead'
  BY DEF AllCounted, Counted, AllSorted, LogsAhead, HostAhead, RelayAhead
<1>3. Routed'
  <2> SUFFICES ASSUME NEW a \in Peers, NEW b \in Peers,
                      NEW i \in DOMAIN network[a][b]
               PROVE  OnRoute(a, b, network[a][b][i])'
    BY DEF Routed
  <2> PICK m : m = network[a][b][i]
    OBVIOUS
  <2>1. m \in Messages
    BY DEF TypeOK
  <2>2. Counted(m) /\ OnRoute(a, b, m)
    BY DEF AllCounted, Routed
  <2>3. m.from \in Peers /\ m.turn \in Nat \ {0} /\ turns[m.from] \in Nat
    BY <2>1 DEF Messages, TypeOK
  <2>4. turns[m.from] > 0
    BY <2>2, <2>3 DEF Counted
  <2>5. hostId'[m.from] = hostId[m.from]
    BY <2>3, <2>4 DEF Started
  <2>6. network'[a][b][i] = m
    OBVIOUS
  <2>7. hostId'[a] = hostId[a] \/ a = Host
    BY <2>2, <2>5 DEF OnRoute
  <2> QED
    BY <2>2, <2>5, <2>6, <2>7 DEF OnRoute
<1> QED
  BY <1>1, <1>2, <1>3

\* The engine of another transport is given nothing, and its own at most the
\* turn at hand.
LEMMA DeliverFacts ==
  ASSUME TypeOK, NEW p \in Peers, NEW m, NEW all \in BOOLEAN, Deliver(p, m, all)
  PROVE  \A b \in Peers :
           log'[b] = log[b] \/ (b = p /\ log'[b] = Append(log[b], m))
BY DEF Deliver, TypeOK

\* Every turn of a sender so far is less than its next one.
LEMMA NextIsLast ==
  ASSUME LockstepInv, NEW p \in Peers, NEW m,
         m = [from |-> p, turn |-> turns[p] + 1]
  PROVE  /\ \A a, b \in Peers : AllLess(network[a][b], m)
         /\ \A b \in Peers : AllLess(log[b], m)
<1>1. \A k \in Messages : Counted(k) => Less(k, m)
  BY DEF Messages, Counted, Less, LockstepInv, TypeOK
<1>2. \A a, b \in Peers : network[a][b] \in Seq(Messages)
  BY DEF LockstepInv, TypeOK
<1>3. \A b \in Peers : log[b] \in Seq(Messages)
  BY DEF LockstepInv, TypeOK
<1>4. \A a, b \in Peers : \A i \in DOMAIN network[a][b] :
        network[a][b][i] \in Messages
  BY <1>2
<1>5. \A b \in Peers : \A i \in DOMAIN log[b] : log[b][i] \in Messages
  BY <1>3
<1> QED
  BY <1>1, <1>4, <1>5 DEF AllLess, LockstepInv, OrderInv, AllCounted

LEMMA SendOrder ==
  ASSUME LockstepInv, NEW p \in Peers, Send(p)
  PROVE  LockstepInv'
<1> DEFINE m == [from |-> p, turn |-> turns[p] + 1]
<1>1. /\ m \in Messages /\ m.from = p /\ m.turn = turns[p] + 1
      /\ phase[p] = "connected"
      /\ turns' = [turns EXCEPT ![p] = turns[p] + 1]
      /\ UNCHANGED <<phase, peerIds, hostId, handlers, missed, members, cache>>
  BY SendFacts DEF LockstepInv, seatVars, lobbyVars
<1>2. PICK reached :
        /\ \A b \in reached :
             b \in Peers /\ b # p /\ (p = Host \/ b = hostId[p])
        /\ \E all \in BOOLEAN : Deliver(p, m, all)
        /\ Sends(p, reached, m)
  BY SendFacts DEF LockstepInv
<1>3. /\ \A a, b \in Peers : AllLess(network[a][b], m)
      /\ \A b \in Peers : AllLess(log[b], m)
  BY NextIsLast
<1> HIDE DEF m
<1>4. /\ network' \in [Peers -> [Peers -> Seq(Messages)]]
      /\ \A a, b \in Peers :
           \/ a = p /\ b \in reached
              /\ network'[a][b] = Append(network[a][b], m)
           \/ ~(a = p /\ b \in reached)
              /\ network'[a][b] = network[a][b]
  <2>1. TypeOK /\ m \in Messages
    BY <1>1 DEF LockstepInv, TypeOK
  <2> QED
    BY <1>2, <2>1, SendChannels
<1>5. /\ log' \in [Peers -> Seq(Messages)] /\ threw' \in [Peers -> BOOLEAN]
      /\ \A b \in Peers :
           log'[b] = log[b] \/ (b = p /\ log'[b] = Append(log[b], m))
  <2>1. TypeOK /\ m \in Messages
    BY <1>1 DEF LockstepInv
  <2> QED
    BY <1>2, <2>1, DeliverType, DeliverFacts
<1>6. TypeOK'
  <2>1. turns' \in [Peers -> Nat]
    BY <1>1 DEF LockstepInv, TypeOK
  <2> QED
    BY <1>1, <1>4, <1>5, <2>1 DEF LockstepInv, TypeOK
<1>7. /\ \A a, b \in Peers : network[a][b] \in Seq(Messages)
      /\ \A b \in Peers : log[b] \in Seq(Messages)
      /\ turns \in [Peers -> Nat]
  BY DEF LockstepInv, TypeOK
<1> USE DEF OrderInv
<1>8. Started'
  BY <1>1, <1>7 DEF Started, Joined, LockstepInv
<1>9. \A k \in Messages : (Counted(k) \/ k = m) => Counted(k)'
  BY <1>1, <1>7 DEF Counted, Messages
<1>10. AllCounted'
  <2>1. ASSUME NEW a \in Peers, NEW b \in Peers, NEW i \in DOMAIN network'[a][b]
        PROVE  Counted(network[a][b][i])'
    <3>1. \/ i \in DOMAIN network[a][b] /\ network'[a][b][i] = network[a][b][i]
          \/ network'[a][b][i] = m
      <4>1. CASE network'[a][b] = network[a][b]
        BY <2>1, <4>1
      <4>2. CASE network'[a][b] = Append(network[a][b], m)
        BY <1>1, <1>7, <2>1, <4>2, GrownElement
      <4> QED
        BY <1>4, <4>1, <4>2
    <3>2. network'[a][b][i] \in Messages
      BY <1>4, <2>1
    <3>3. Counted(network'[a][b][i]) \/ network'[a][b][i] = m
      BY <3>1 DEF LockstepInv, AllCounted
    <3> QED
      BY <1>9, <3>2, <3>3 DEF Counted
  <2>2. ASSUME NEW b \in Peers, NEW i \in DOMAIN log'[b]
        PROVE  Counted(log[b][i])'
    <3>1. \/ i \in DOMAIN log[b] /\ log'[b][i] = log[b][i]
          \/ log'[b][i] = m
      <4>1. CASE log'[b] = log[b]
        BY <2>2, <4>1
      <4>2. CASE log'[b] = Append(log[b], m)
        BY <1>1, <1>7, <2>2, <4>2, GrownElement
      <4> QED
        BY <1>5, <4>1, <4>2
    <3>2. log'[b][i] \in Messages
      BY <1>5, <2>2
    <3>3. Counted(log'[b][i]) \/ log'[b][i] = m
      BY <3>1 DEF LockstepInv, AllCounted
    <3> QED
      BY <1>9, <3>2, <3>3 DEF Counted
  <2> QED
    BY <2>1, <2>2 DEF AllCounted
<1>11. Routed'
  <2> SUFFICES ASSUME NEW a \in Peers, NEW b \in Peers,
                      NEW i \in DOMAIN network'[a][b]
               PROVE  OnRoute(a, b, network[a][b][i])'
    BY DEF Routed
  <2>1. \/ i \in DOMAIN network[a][b] /\ network'[a][b][i] = network[a][b][i]
        \/ network'[a][b][i] = m /\ a = p /\ b \in reached
    <3>1. CASE network'[a][b] = network[a][b]
      BY <3>1
    <3>2. CASE network'[a][b] = Append(network[a][b], m) /\ a = p /\ b \in reached
      BY <1>1, <1>7, <3>2, GrownElement
    <3> QED
      BY <1>4, <3>1, <3>2
  <2>2. OnRoute(a, b, network'[a][b][i])
    BY <1>1, <1>2, <2>1 DEF LockstepInv, Routed, OnRoute
  <2> QED
    BY <1>1, <2>2 DEF OnRoute
<1>12. AllSorted'
  <2>1. ASSUME NEW a \in Peers, NEW b \in Peers
        PROVE  Sorted(network'[a][b])
    <3>1. Sorted(network[a][b])
      BY DEF LockstepInv, AllSorted
    <3>2. Sorted(Append(network[a][b], m))
      BY <1>1, <1>3, <1>7, <3>1, SortedAppend
    <3> QED
      BY <1>4, <3>1, <3>2
  <2>2. ASSUME NEW b \in Peers
        PROVE  Sorted(log'[b])
    <3>1. Sorted(log[b])
      BY DEF LockstepInv, AllSorted
    <3>2. Sorted(Append(log[b], m))
      BY <1>1, <1>3, <1>7, <3>1, SortedAppend
    <3> QED
      BY <1>5, <3>1, <3>2
  <2> QED
    BY <2>1, <2>2 DEF AllSorted
<1>13. \A a \in Peers : LessThanAll(m, network[a][p])
  BY <1>1 DEF LockstepInv, Routed, OnRoute, LessThanAll, Less
<1>14. \A f \in Peers : f # Host /\ f # p => LessThanAll(m, network[f][Host])
  BY <1>1, LockstepAssumption DEF LockstepInv, Routed, OnRoute, LessThanAll, Less
<1>15. LogsAhead'
  <2> SUFFICES ASSUME NEW a \in Peers, NEW b \in Peers
               PROVE  Ahead(log'[b], network'[a][b])
    BY DEF LogsAhead
  <2>1. Ahead(log[b], network[a][b])
    BY DEF LockstepInv, LogsAhead
  <2>2. CASE b = p
    <3>1. network'[a][b] = network[a][b]
      BY <1>2, <1>4, <2>2
    <3>2. LessThanAll(m, network[a][b])
      BY <1>13, <2>2
    <3>3. Ahead(Append(log[b], m), network[a][b])
      BY <1>1, <1>7, <2>1, <3>2, AppendAhead
    <3> QED
      BY <1>5, <2>1, <3>1, <3>3
  <2>3. CASE b # p
    <3>1. log'[b] = log[b]
      BY <1>5, <2>3
    <3>2. Ahead(log[b], Append(network[a][b], m))
      BY <1>1, <1>3, <1>7, <2>1, AheadAppend
    <3> QED
      BY <1>4, <2>1, <3>1, <3>2
  <2> QED
    BY <2>2, <2>3
<1>16. HostAhead'
  <2> SUFFICES ASSUME NEW f \in Peers, NEW r \in Peers, f # Host, r # f
               PROVE  Ahead(log'[r], network'[f][Host])
    BY DEF HostAhead
  <2>1. Host \in Peers /\ Ahead(log[r], network[f][Host])
    BY LockstepAssumption DEF LockstepInv, HostAhead
  <2>2. CASE r = p
    <3>1. network'[f][Host] = network[f][Host]
      BY <1>4, <2>1, <2>2
    <3>2. LessThanAll(m, network[f][Host])
      BY <1>14, <2>2
    <3>3. Ahead(Append(log[r], m), network[f][Host])
      BY <1>1, <1>7, <2>1, <3>2, AppendAhead
    <3> QED
      BY <1>5, <2>1, <3>1, <3>3
  <2>3. CASE r # p
    <3>1. log'[r] = log[r]
      BY <1>5, <2>3
    <3>2. Ahead(log[r], Append(network[f][Host], m))
      BY <1>1, <1>3, <1>7, <2>1, AheadAppend
    <3> QED
      BY <1>4, <2>1, <3>1, <3>2
  <2> QED
    BY <2>2, <2>3
<1>17. RelayAhead'
  <2> SUFFICES ASSUME NEW f \in Peers, NEW r \in Peers, f # Host, r # Host
               PROVE  Ahead(network'[Host][r], network'[f][Host])
    BY DEF RelayAhead
  <2>1. Host \in Peers /\ Ahead(network[Host][r], network[f][Host])
    BY LockstepAssumption DEF LockstepInv, RelayAhead
  <2>2. CASE p = Host
    <3>1. network'[f][Host] = network[f][Host]
      BY <1>4, <2>1, <2>2
    <3>2. LessThanAll(m, network[f][Host])
      BY <1>14, <2>2
    <3>3. Ahead(Append(network[Host][r], m), network[f][Host])
      BY <1>1, <1>7, <2>1, <3>2, AppendAhead
    <3> QED
      BY <1>4, <2>1, <3>1, <3>3
  <2>3. CASE p # Host
    <3>1. network'[Host][r] = network[Host][r]
      BY <1>4, <2>1, <2>3
    <3>2. Ahead(network[Host][r], Append(network[f][Host], m))
      BY <1>1, <1>3, <1>7, <2>1, AheadAppend
    <3> QED
      BY <1>4, <2>1, <3>1, <3>2
  <2> QED
    BY <2>2, <2>3
<1> QED
  BY <1>6, <1>8, <1>10, <1>11, <1>12, <1>15, <1>16, <1>17 DEF LockstepInv

LEMMA OnPacketOrder ==
  ASSUME LockstepInv, NEW p \in Peers, NEW q \in Peers, OnPacket(p, q)
  PROVE  LockstepInv'
<1> PICK m : m = Head(network[q][p])
  OBVIOUS
<1>1. /\ network[q][p] # << >> /\ m \in Messages /\ m.from \in Peers
      /\ UNCHANGED <<phase, peerIds, hostId, handlers, missed, members, cache,
                     turns>>
  BY OnPacketFacts DEF LockstepInv, seatVars, lobbyVars, Messages
<1>2. PICK reached :
        /\ \A b \in reached : b \in Peers /\ b # p /\ b # q /\ p = Host
        /\ \E all \in BOOLEAN : Deliver(p, m, all)
        /\ TakesAndSends(q, p, reached, m)
  BY OnPacketFacts DEF LockstepInv
<1>3. /\ \A a, b \in Peers : network[a][b] \in Seq(Messages)
      /\ \A b \in Peers : log[b] \in Seq(Messages)
      /\ Host \in Peers
  <2>1. \A a, b \in Peers : network[a][b] \in Seq(Messages)
    BY DEF LockstepInv, TypeOK
  <2>2. \A b \in Peers : log[b] \in Seq(Messages)
    BY DEF LockstepInv, TypeOK
  <2> QED
    BY <2>1, <2>2, LockstepAssumption
<1>4. 1 \in DOMAIN network[q][p] /\ network[q][p][1] = m
  BY <1>1, <1>3, TailFacts
<1> USE DEF OrderInv
<1>5. Counted(m) /\ OnRoute(q, p, m) /\ p # q
  BY <1>4 DEF LockstepInv, AllCounted, Routed, OnRoute
<1>6. /\ network' \in [Peers -> [Peers -> Seq(Messages)]]
      /\ \A a, b \in Peers :
           \/ a = q /\ b = p /\ network'[a][b] = Tail(network[a][b])
           \/ a = p /\ b \in reached
              /\ network'[a][b] = Append(network[a][b], m)
           \/ ~(a = q /\ b = p) /\ ~(a = p /\ b \in reached)
              /\ network'[a][b] = network[a][b]
  <2>1. TypeOK
    BY DEF LockstepInv, TypeOK
  <2> QED
    BY <1>1, <1>2, <1>5, <2>1, OnPacketChannels
<1>7. /\ log' \in [Peers -> Seq(Messages)] /\ threw' \in [Peers -> BOOLEAN]
      /\ \A b \in Peers :
           log'[b] = log[b] \/ (b = p /\ log'[b] = Append(log[b], m))
  <2>1. TypeOK /\ m \in Messages
    BY <1>1 DEF LockstepInv
  <2> QED
    BY <1>2, <2>1, DeliverType, DeliverFacts
<1>8. TypeOK'
  BY <1>1, <1>6, <1>7 DEF LockstepInv, TypeOK
<1>9. /\ AllLess(log[p], m)
      /\ Ahead(log[p], Tail(network[q][p]))
      /\ Sorted(Tail(network[q][p]))
      /\ LessThanAll(m, Tail(network[q][p]))
  BY <1>1, <1>3, AheadTail, SortedTail DEF LockstepInv, LogsAhead, AllSorted
\* Only the host relays, and what it relays came from a guest.
<1>10. \A b \in reached :
         /\ p = Host /\ q # Host /\ b # Host /\ b # q /\ b \in Peers
         /\ m.from = q /\ hostId[q] = Host
  BY <1>2, <1>5 DEF OnRoute
<1>11. \A b \in reached : AllLess(log[b], m) /\ AllLess(network[p][b], m)
  <2> SUFFICES ASSUME NEW b \in reached
               PROVE  AllLess(log[b], m) /\ AllLess(network[p][b], m)
    OBVIOUS
  <2>1. Ahead(log[b], network[q][p]) /\ Ahead(network[p][b], network[q][p])
    BY <1>10 DEF LockstepInv, HostAhead, RelayAhead
  <2> QED
    BY <1>1, <1>3, <1>10, <2>1, AheadTail
<1>12. ASSUME NEW a \in Peers, NEW b \in Peers, NEW i \in DOMAIN network'[a][b]
       PROVE  \/ \E j \in DOMAIN network[a][b] :
                   network'[a][b][i] = network[a][b][j]
              \/ network'[a][b][i] = m /\ a = p /\ b \in reached
  <2>1. CASE a = q /\ b = p /\ network'[a][b] = Tail(network[a][b])
    BY <1>1, <1>3, <1>12, <2>1, TailFacts
  <2>2. CASE a = p /\ b \in reached /\ network'[a][b] = Append(network[a][b], m)
    BY <1>1, <1>3, <1>12, <2>2, GrownElement
  <2>3. CASE network'[a][b] = network[a][b]
    BY <1>12, <2>3
  <2> QED
    BY <1>6, <2>1, <2>2, <2>3
<1>13. Started'
  BY <1>1 DEF LockstepInv, Started
<1>14. AllCounted'
  <2>1. \A a, b \in Peers : \A i \in DOMAIN network'[a][b] :
          Counted(network'[a][b][i])
    BY <1>5, <1>12 DEF LockstepInv, AllCounted
  <2>2. ASSUME NEW b \in Peers, NEW i \in DOMAIN log'[b]
        PROVE  Counted(log'[b][i])
    <3>1. CASE log'[b] = log[b]
      BY <2>2, <3>1 DEF LockstepInv, AllCounted
    <3>2. CASE log'[b] = Append(log[b], m)
      BY <1>1, <1>3, <1>5, <2>2, <3>2, GrownElement DEF LockstepInv, AllCounted
    <3> QED
      BY <1>7, <3>1, <3>2
  <2> QED
    BY <1>1, <2>1, <2>2 DEF AllCounted, Counted
<1>15. Routed'
  <2> SUFFICES ASSUME NEW a \in Peers, NEW b \in Peers,
                      NEW i \in DOMAIN network'[a][b]
               PROVE  OnRoute(a, b, network[a][b][i])'
    BY DEF Routed
  <2>1. OnRoute(a, b, network'[a][b][i])
    <3>1. CASE \E j \in DOMAIN network[a][b] :
                 network'[a][b][i] = network[a][b][j]
      BY <3>1 DEF LockstepInv, Routed
    <3>2. CASE network'[a][b][i] = m /\ a = p /\ b \in reached
      BY <1>10, <3>2 DEF OnRoute
    <3> QED
      BY <1>12, <3>1, <3>2
  <2> QED
    BY <1>1, <2>1 DEF OnRoute
<1>16. AllSorted'
  <2>1. ASSUME NEW a \in Peers, NEW b \in Peers
        PROVE  Sorted(network'[a][b])
    <3>1. Sorted(network[a][b])
      BY DEF LockstepInv, AllSorted
    <3>2. CASE a = p /\ b \in reached
      <4>1. Sorted(Append(network[a][b], m))
        BY <1>1, <1>3, <1>11, <3>1, <3>2, SortedAppend
      <4> QED
        BY <1>5, <1>6, <3>2, <4>1
    <3> QED
      BY <1>6, <1>9, <3>1, <3>2
  <2>2. ASSUME NEW b \in Peers
        PROVE  Sorted(log'[b])
    <3>1. Sorted(log[b])
      BY DEF LockstepInv, AllSorted
    <3>2. CASE b = p
      BY <1>1, <1>3, <1>7, <1>9, <3>1, <3>2, SortedAppend
    <3> QED
      BY <1>7, <3>1, <3>2
  <2> QED
    BY <2>1, <2>2 DEF AllSorted
\* The turns of one sender come to p by one channel only.
<1>17. ASSUME NEW a \in Peers, a # q
       PROVE  LessThanAll(m, network[a][p])
  <2> SUFFICES ASSUME NEW i \in DOMAIN network[a][p],
                      network[a][p][i].from = m.from
               PROVE  FALSE
    BY DEF LessThanAll, Less
  <2>1. OnRoute(a, p, network[a][p][i])
    BY DEF LockstepInv, Routed
  <2> QED
    BY <1>5, <1>17, <2>1 DEF OnRoute
<1>18. LogsAhead'
  <2> SUFFICES ASSUME NEW a \in Peers, NEW b \in Peers
               PROVE  Ahead(log'[b], network'[a][b])
    BY DEF LogsAhead
  <2>1. Ahead(log[b], network[a][b])
    BY DEF LockstepInv, LogsAhead
  <2>2. CASE b = p
    <3>1. /\ Ahead(log[b], network'[a][b]) /\ LessThanAll(m, network'[a][b])
          /\ network'[a][b] \in Seq(Messages)
      BY <1>2, <1>6, <1>9, <1>17, <2>1, <2>2
    <3>2. Ahead(Append(log[b], m), network'[a][b])
      BY <1>1, <1>3, <3>1, AppendAhead
    <3> QED
      BY <1>7, <3>1, <3>2
  <2>3. CASE b # p
    <3>1. log'[b] = log[b]
      BY <1>7, <2>3
    <3>2. CASE a = p /\ b \in reached
      <4>1. Ahead(log[b], Append(network[a][b], m))
        BY <1>1, <1>3, <1>11, <2>1, <3>2, AheadAppend
      <4> QED
        BY <1>5, <1>6, <3>1, <3>2, <4>1
    <3> QED
      BY <1>6, <2>1, <2>3, <3>1, <3>2
  <2> QED
    BY <2>2, <2>3
\* What guests have still to get relayed is behind the turn at hand.
<1>19. ASSUME NEW f \in Peers, f # Host
       PROVE  /\ network'[f][Host] \in Seq(Messages)
              /\ LessThanAll(m, network'[f][Host])
              /\ \/ network'[f][Host] = network[f][Host]
                 \/ /\ f = q /\ p = Host
                    /\ network'[f][Host] = Tail(network[f][Host])
  <2>1. network'[f][Host] \in Seq(Messages)
    BY <1>3, <1>6
  <2>2. \/ network'[f][Host] = network[f][Host] /\ ~(f = q /\ p = Host)
        \/ /\ f = q /\ p = Host
           /\ network'[f][Host] = Tail(network[f][Host])
    BY <1>3, <1>6, <1>10, <1>19
  <2>3. CASE f = q /\ p = Host
    BY <1>9, <2>1, <2>2, <2>3
  <2>4. CASE ~(f = q /\ p = Host)
    <3>1. \A i \in DOMAIN network[f][Host] :
            network[f][Host][i].from = f /\ hostId[f] = Host
      BY <1>3, <1>19 DEF LockstepInv, Routed, OnRoute
    <3>2. LessThanAll(m, network[f][Host])
      <4>1. CASE f = q
        <5>1. \A i \in DOMAIN network[f][Host] : FALSE
          BY <1>5, <1>19, <2>4, <3>1, <4>1 DEF OnRoute
        <5> QED
          BY <5>1 DEF LessThanAll
      <4>2. CASE f # q /\ m.from = f
        <5>1. q = Host /\ p # Host
          BY <1>5, <4>2 DEF OnRoute
        <5>2. Ahead(network[q][p], network[f][Host])
          BY <1>19, <5>1 DEF LockstepInv, RelayAhead
        <5> QED
          BY <1>1, <1>3, <5>2, TailAhead
      <4>3. CASE f # q /\ m.from # f
        BY <3>1, <4>3 DEF LessThanAll, Less
      <4> QED
        BY <4>1, <4>2, <4>3
    <3> QED
      BY <2>1, <2>2, <2>4, <3>2
  <2> QED
    BY <2>3, <2>4
<1>20. HostAhead'
  <2> SUFFICES ASSUME NEW f \in Peers, NEW r \in Peers, f # Host, r # f
               PROVE  Ahead(log'[r], network'[f][Host])
    BY DEF HostAhead
  <2>1. Ahead(log[r], network[f][Host])
    BY DEF LockstepInv, HostAhead
  <2>2. Ahead(log[r], network'[f][Host])
    BY <1>1, <1>3, <1>19, <2>1, AheadTail
  <2>3. Ahead(Append(log[r], m), network'[f][Host])
    BY <1>1, <1>3, <1>19, <2>2, AppendAhead
  <2> QED
    BY <1>7, <2>2, <2>3
<1>21. RelayAhead'
  <2> SUFFICES ASSUME NEW f \in Peers, NEW r \in Peers, f # Host, r # Host
               PROVE  Ahead(network'[Host][r], network'[f][Host])
    BY DEF RelayAhead
  <2>1. Ahead(network[Host][r], network[f][Host])
    BY DEF LockstepInv, RelayAhead
  <2>2. Ahead(network[Host][r], network'[f][Host])
    <3>1. CASE network'[f][Host] = network[f][Host]
      BY <2>1, <3>1
    <3>2. CASE /\ f = q /\ p = Host
               /\ network'[f][Host] = Tail(network[f][Host])
      BY <1>1, <1>3, <2>1, <3>2, AheadTail
    <3> QED
      BY <1>19, <3>1, <3>2
  <2>3. CASE Host = q /\ r = p
    BY <1>1, <1>3, <1>5, <1>6, <1>19, <2>2, <2>3, TailAhead
  <2>4. CASE Host = p /\ r \in reached
    <3>1. Ahead(Append(network[Host][r], m), network'[f][Host])
      BY <1>1, <1>3, <1>19, <2>2, AppendAhead
    <3> QED
      BY <1>5, <1>6, <2>4, <3>1
  <2>5. CASE ~(Host = q /\ r = p) /\ ~(Host = p /\ r \in reached)
    BY <1>3, <1>6, <2>2, <2>5
  <2> QED
    BY <2>3, <2>4, <2>5
<1> QED
  BY <1>8, <1>13, <1>14, <1>15, <1>16, <1>18, <1>20, <1>21 DEF LockstepInv

LEMMA NobodyListensOrder ==
  ASSUME LockstepInv, NEW p \in Peers, NEW q \in Peers, NobodyListens(p, q)
  PROVE  LockstepInv'
<1>1. /\ network[q][p] # << >> /\ Takes(q, p)
      /\ UNCHANGED <<phase, peerIds, hostId, handlers, missed, members, cache,
                     turns, log, threw>>
  BY DEF NobodyListens, Takes, seatVars, lobbyVars
<1>2. /\ \A a, b \in Peers : network[a][b] \in Seq(Messages)
      /\ Host \in Peers
  <2>1. \A a, b \in Peers : network[a][b] \in Seq(Messages)
    BY DEF LockstepInv, TypeOK
  <2> QED
    BY <2>1, LockstepAssumption
<1>3. /\ network' \in [Peers -> [Peers -> Seq(Messages)]]
      /\ \A a, b \in Peers :
           \/ network'[a][b] = network[a][b]
           \/ /\ network[a][b] # << >>
              /\ network'[a][b] = Tail(network[a][b])
  <2>1. TypeOK
    BY DEF LockstepInv, TypeOK
  <2> QED
    BY <1>1, <2>1, TakeChannels
<1>4. TypeOK'
  BY <1>1, <1>3 DEF LockstepInv, TypeOK
<1> USE DEF OrderInv
<1>5. ASSUME NEW a \in Peers, NEW b \in Peers, NEW i \in DOMAIN network'[a][b]
      PROVE  \E j \in DOMAIN network[a][b] : network'[a][b][i] = network[a][b][j]
  <2>1. CASE network'[a][b] = network[a][b]
    BY <1>5, <2>1
  <2>2. CASE network[a][b] # << >> /\ network'[a][b] = Tail(network[a][b])
    BY <1>2, <1>5, <2>2, TailFacts
  <2> QED
    BY <1>3, <2>1, <2>2
<1>6. Started'
  BY <1>1 DEF LockstepInv, Started
<1>7. AllCounted'
  BY <1>1, <1>5 DEF LockstepInv, AllCounted, Counted
<1>8. Routed'
  BY <1>1, <1>5 DEF LockstepInv, Routed, OnRoute
<1>9. AllSorted'
  BY <1>1, <1>2, <1>3, SortedTail DEF LockstepInv, AllSorted
<1>10. LogsAhead'
  BY <1>1, <1>5 DEF LockstepInv, LogsAhead, Ahead
<1>11. HostAhead'
  BY <1>1, <1>2, <1>5 DEF LockstepInv, HostAhead, Ahead
<1>12. RelayAhead'
  BY <1>2, <1>5 DEF LockstepInv, RelayAhead, Ahead
<1> QED
  BY <1>4, <1>6, <1>7, <1>8, <1>9, <1>10, <1>11, <1>12 DEF LockstepInv

\* Connecting, the lobby and disconnecting move no turn.
LEMMA QuietSteps ==
  ASSUME LockstepInv, NEW p \in Peers,
         \/ Connect(p) \/ Enter(p) \/ Entered(p) \/ EnterFails(p)
         \/ Connected(p) \/ ConnectFails(p) \/ MemberStatus(p)
         \/ Disconnect(p) \/ Left(p)
  PROVE  LockstepInv'
<1>1. TypeOK'
  BY ConnectTypes, SeatTypes, LeftTypes DEF LockstepInv
<1>2. UNCHANGED <<network, turns, log>>
  BY DEF Connect, Enter, Entered, EnterFails, Connected, ConnectFails,
     MemberStatus, Disconnect, Left
<1>3. phase \in [Peers -> Phases] /\ hostId \in [Peers -> {Host, Nobody}]
  <2>1. phase \in [Peers -> Phases]
    BY DEF LockstepInv, TypeOK
  <2>2. hostId \in [Peers -> {Host, Nobody}]
    BY DEF LockstepInv, TypeOK
  <2> QED
    BY <2>1, <2>2
<1>4. \A q \in Peers : phase[q] \in Joined =>
        phase'[q] \in Joined /\ hostId'[q] = hostId[q]
  BY <1>3 DEF Connect, Enter, Entered, EnterFails, Connected, ConnectFails,
     MemberStatus, Disconnect, Left, Move, seatVars, lobbyVars, Joined
<1> QED
  BY <1>1, <1>2, <1>4, QuietOrder DEF LockstepInv

LEMMA LockstepInvariant == Spec => []LockstepInv
<1>1. Init => LockstepInv
  BY InitTypes, InitOrder DEF LockstepInv
<1>2. LockstepInv /\ [Next]_vars => LockstepInv'
  <2> SUFFICES ASSUME LockstepInv, [Next]_vars PROVE LockstepInv'
    OBVIOUS
  <2>1. CASE UNCHANGED vars
    <3>1. UNCHANGED <<phase, peerIds, hostId, handlers, missed, members, cache,
                      network, turns, log, threw>>
      BY <2>1 DEF vars, seatVars, lobbyVars
    <3>2. TypeOK'
      BY <3>1 DEF LockstepInv, TypeOK
    <3> QED
      BY <3>1, <3>2, QuietOrder DEF LockstepInv
  <2>2. ASSUME NEW p \in Peers,
               \/ Connect(p) \/ Enter(p) \/ Entered(p) \/ EnterFails(p)
               \/ Connected(p) \/ ConnectFails(p) \/ MemberStatus(p)
               \/ Disconnect(p) \/ Left(p)
        PROVE  LockstepInv'
    BY <2>2, QuietSteps
  <2>3. ASSUME NEW p \in Peers, Send(p)
        PROVE  LockstepInv'
    BY <2>3, SendOrder
  <2>4. ASSUME NEW p \in Peers, NEW q \in Peers, OnPacket(p, q)
        PROVE  LockstepInv'
    BY <2>4, OnPacketOrder
  <2>5. ASSUME NEW p \in Peers, NEW q \in Peers, NobodyListens(p, q)
        PROVE  LockstepInv'
    BY <2>5, NobodyListensOrder
  <2> QED
    BY <2>1, <2>2, <2>3, <2>4, <2>5 DEF Next
<1> QED
  BY <1>1, <1>2, PTL DEF Spec

\* The variables of the transports, the lobby and the channels keep their
\* types.
THEOREM TypeCorrect == Spec => []TypeOK
<1>1. LockstepInv => TypeOK
  BY DEF LockstepInv, TypeOK
<1> QED
  BY <1>1, LockstepInvariant, PTL

\* An engine is given each turn of a peer once, and the turns of one peer in
\* the order in which they were sent (lockstep-transport.js:9-11), whichever
\* way they came.
THEOREM TurnsInOrderHolds == Spec => []TurnsInOrder
<1>1. LockstepInv => TurnsInOrder
  BY DEF LockstepInv, OrderInv, AllSorted, Sorted, Less, TurnsInOrder
<1> QED
  BY <1>1, LockstepInvariant, PTL

-----------------------------------------------------------------------------
(* A turn reaches the engine it came from.                                 *)

\* The engine of m's sender was given m, unless it had no right to it.
Home(m) ==
  \/ \E j \in DOMAIN log[m.from] : log[m.from][j] = m
  \/ threw[m.from] \/ ~handlers[m.from]

AllHome ==
  /\ \A a, b \in Peers : \A i \in DOMAIN network[a][b] : Home(network[a][b][i])
  /\ \A b \in Peers : \A i \in DOMAIN log[b] : Home(log[b][i])

\* Logs only grow, and what was thrown or taken off stays so.
Grows ==
  /\ \A b \in Peers : \A j \in DOMAIN log[b] :
       j \in DOMAIN log'[b] /\ log'[b][j] = log[b][j]
  /\ \A b \in Peers : threw[b] => threw'[b]
  /\ \A b \in Peers : handlers'[b] => handlers[b]

LEMMA HomeStays ==
  ASSUME Grows, NEW m \in Messages, Home(m)
  PROVE  Home(m)'
BY DEF Grows, Home, Messages

LEMMA DeliverGrows ==
  ASSUME TypeOK, NEW p \in Peers, NEW m \in Messages, NEW all \in BOOLEAN,
         Deliver(p, m, all), UNCHANGED handlers
  PROVE  /\ Grows
         /\ handlers[p] => threw'[p] \/ log'[p] = Append(log[p], m)
<1>1. \A b \in Peers : log[b] \in Seq(Messages)
  BY DEF TypeOK
<1>2. \A b \in Peers : log'[b] = log[b] \/ log'[b] = Append(log[b], m)
  BY DEF Deliver, TypeOK
<1>3. \A b \in Peers : threw[b] => threw'[b]
  BY DEF Deliver, TypeOK
<1>4. ASSUME NEW b \in Peers, NEW j \in DOMAIN log[b]
      PROVE  j \in DOMAIN log'[b] /\ log'[b][j] = log[b][j]
  <2>1. CASE log'[b] = log[b]
    BY <1>4, <2>1
  <2>2. CASE log'[b] = Append(log[b], m)
    BY <1>1, <1>4, <2>2
  <2> QED
    BY <1>2, <2>1, <2>2
<1>5. handlers[p] => threw'[p] \/ log'[p] = Append(log[p], m)
  BY DEF Deliver, TypeOK
<1> QED
  BY <1>3, <1>4, <1>5 DEF Grows

\* What the channels and the logs hold after a step was there before it, or is
\* the turn at hand.
LEMMA HomeKept ==
  ASSUME LockstepInv, AllHome, Grows, NEW m \in Messages, Home(m)',
         \A a, b \in Peers : \A i \in DOMAIN network'[a][b] :
           \/ \E j \in DOMAIN network[a][b] :
                network'[a][b][i] = network[a][b][j]
           \/ network'[a][b][i] = m,
         \A b \in Peers :
           log'[b] = log[b] \/ log'[b] = Append(log[b], m)
  PROVE  AllHome'
<1>1. /\ \A a, b \in Peers : network[a][b] \in Seq(Messages)
      /\ \A b \in Peers : log[b] \in Seq(Messages)
  <2>1. \A a, b \in Peers : network[a][b] \in Seq(Messages)
    BY DEF LockstepInv, TypeOK
  <2>2. \A b \in Peers : log[b] \in Seq(Messages)
    BY DEF LockstepInv, TypeOK
  <2> QED
    BY <2>1, <2>2
<1>2. ASSUME NEW a \in Peers, NEW b \in Peers, NEW i \in DOMAIN network'[a][b]
      PROVE  Home(network[a][b][i])'
  <2>1. ASSUME NEW j \in DOMAIN network[a][b],
               network'[a][b][i] = network[a][b][j]
        PROVE  Home(network[a][b][i])'
    <3> PICK k : k = network[a][b][j]
      OBVIOUS
    <3>1. k \in Messages /\ Home(k)
      BY <1>1, <2>1 DEF AllHome
    <3>2. Home(k)' /\ network'[a][b][i] = k
      BY <2>1, <3>1, HomeStays
    <3> QED
      BY <3>2 DEF Home
  <2>2. CASE network'[a][b][i] = m
    BY <2>2 DEF Home
  <2> QED
    BY <1>2, <2>1, <2>2
<1>3. ASSUME NEW b \in Peers, NEW i \in DOMAIN log'[b]
      PROVE  Home(log[b][i])'
  <2>1. CASE i \in DOMAIN log[b] /\ log'[b][i] = log[b][i]
    <3> PICK k : k = log[b][i]
      OBVIOUS
    <3>1. k \in Messages /\ Home(k)
      BY <1>1, <2>1 DEF AllHome
    <3>2. Home(k)' /\ log'[b][i] = k
      BY <2>1, <3>1, HomeStays
    <3> QED
      BY <3>2 DEF Home
  <2>2. CASE log'[b][i] = m
    BY <2>2 DEF Home
  <2>3. CASE log'[b] = Append(log[b], m)
    BY <1>1, <1>3, <2>1, <2>2, <2>3, GrownElement
  <2> QED
    BY <1>3, <2>1, <2>3
<1> QED
  BY <1>2, <1>3 DEF AllHome

LEMMA SendHome ==
  ASSUME LockstepInv, AllHome, NEW p \in Peers, Send(p)
  PROVE  AllHome'
<1> PICK m : m = [from |-> p, turn |-> turns[p] + 1]
  OBVIOUS
<1>1. m \in Messages /\ m.from = p /\ UNCHANGED handlers
  BY SendFacts DEF LockstepInv, seatVars
<1>2. PICK reached : Sends(p, reached, m) /\ \E all \in BOOLEAN : Deliver(p, m, all)
  BY SendFacts DEF LockstepInv
<1>3. TypeOK
  BY DEF LockstepInv, TypeOK
<1>4. /\ Grows
      /\ handlers[p] => threw'[p] \/ log'[p] = Append(log[p], m)
      /\ \A b \in Peers : log'[b] = log[b] \/ log'[b] = Append(log[b], m)
  BY <1>1, <1>2, <1>3, DeliverGrows, DeliverFacts
<1>5. \A a, b \in Peers :
        network'[a][b] = network[a][b] \/ network'[a][b] = Append(network[a][b], m)
  BY <1>1, <1>2, <1>3, SendChannels
<1>6. /\ \A a, b \in Peers : network[a][b] \in Seq(Messages)
      /\ \A b \in Peers : log[b] \in Seq(Messages)
  BY <1>3 DEF TypeOK
<1>7. Home(m)'
  <2>1. log[p] \in Seq(Messages)
    BY <1>6
  <2>2. CASE log'[p] = Append(log[p], m)
    <3>1. Len(log[p]) + 1 \in DOMAIN log'[p] /\ log'[p][Len(log[p]) + 1] = m
      BY <1>1, <2>1, <2>2
    <3> QED
      BY <1>1, <3>1 DEF Home
  <2> QED
    BY <1>1, <1>4, <2>2 DEF Home
<1>8. ASSUME NEW a \in Peers, NEW b \in Peers, NEW i \in DOMAIN network'[a][b]
      PROVE  \/ \E j \in DOMAIN network[a][b] :
                  network'[a][b][i] = network[a][b][j]
             \/ network'[a][b][i] = m
  <2>1. CASE network'[a][b] = network[a][b]
    BY <1>8, <2>1
  <2>2. CASE network'[a][b] = Append(network[a][b], m)
    BY <1>1, <1>6, <1>8, <2>2, GrownElement
  <2> QED
    BY <1>5, <2>1, <2>2
<1> QED
  BY <1>1, <1>4, <1>7, <1>8, HomeKept

LEMMA OnPacketHome ==
  ASSUME LockstepInv, AllHome, NEW p \in Peers, NEW q \in Peers, OnPacket(p, q)
  PROVE  AllHome'
<1> PICK m : m = Head(network[q][p])
  OBVIOUS
<1>1. network[q][p] # << >> /\ m \in Messages /\ UNCHANGED handlers
  BY OnPacketFacts DEF LockstepInv, seatVars
<1>2. PICK reached :
        TakesAndSends(q, p, reached, m) /\ \E all \in BOOLEAN : Deliver(p, m, all)
  BY OnPacketFacts DEF LockstepInv
<1>3. TypeOK
  BY DEF LockstepInv, TypeOK
<1>4. \A a, b \in Peers : network[a][b] \in Seq(Messages)
  BY <1>3 DEF TypeOK
<1>5. 1 \in DOMAIN network[q][p] /\ network[q][p][1] = m
  BY <1>1, <1>4, TailFacts
<1>6. Home(m) /\ p # q
  BY <1>5 DEF AllHome, LockstepInv, OrderInv, Routed, OnRoute
<1>7. /\ Grows
      /\ \A b \in Peers : log'[b] = log[b] \/ log'[b] = Append(log[b], m)
  BY <1>1, <1>2, <1>3, DeliverGrows, DeliverFacts
<1>8. Home(m)'
  BY <1>1, <1>6, <1>7, HomeStays DEF Home
<1>9. \A a, b \in Peers :
        \/ network'[a][b] = network[a][b]
        \/ a = q /\ b = p /\ network'[a][b] = Tail(network[a][b])
        \/ network'[a][b] = Append(network[a][b], m)
  BY <1>1, <1>2, <1>3, <1>6, OnPacketChannels
<1>10. ASSUME NEW a \in Peers, NEW b \in Peers, NEW i \in DOMAIN network'[a][b]
       PROVE  \/ \E j \in DOMAIN network[a][b] :
                   network'[a][b][i] = network[a][b][j]
              \/ network'[a][b][i] = m
  <2>1. CASE network'[a][b] = network[a][b]
    BY <1>10, <2>1
  <2>2. CASE a = q /\ b = p /\ network'[a][b] = Tail(network[a][b])
    BY <1>1, <1>4, <1>10, <2>2, TailFacts
  <2>3. CASE network'[a][b] = Append(network[a][b], m)
    BY <1>1, <1>4, <1>10, <2>3, GrownElement
  <2> QED
    BY <1>9, <2>1, <2>2, <2>3
<1> QED
  BY <1>1, <1>7, <1>8, <1>10, HomeKept

\* Every other step leaves the logs alone and puts nothing in a channel.
LEMMA OtherHome ==
  ASSUME LockstepInv, AllHome, Grows, UNCHANGED log,
         \A a, b \in Peers : \A i \in DOMAIN network'[a][b] :
           \E j \in DOMAIN network[a][b] : network'[a][b][i] = network[a][b][j]
  PROVE  AllHome'
<1>1. ASSUME NEW m \in Messages, Home(m)
      PROVE  AllHome'
  <2>1. Home(m)'
    BY <1>1, HomeStays
  <2> QED
    BY <1>1, <2>1, HomeKept
<1>2. /\ \A a, b \in Peers : network[a][b] \in Seq(Messages)
      /\ \A b \in Peers : log[b] \in Seq(Messages)
  <2>1. \A a, b \in Peers : network[a][b] \in Seq(Messages)
    BY DEF LockstepInv, TypeOK
  <2>2. \A b \in Peers : log[b] \in Seq(Messages)
    BY DEF LockstepInv, TypeOK
  <2> QED
    BY <2>1, <2>2
<1>3. ASSUME NEW a \in Peers, NEW b \in Peers, NEW i \in DOMAIN network[a][b]
      PROVE  AllHome'
  <2>1. network[a][b][i] \in Messages /\ Home(network[a][b][i])
    BY <1>2, <1>3 DEF AllHome
  <2> QED
    BY <1>1, <2>1
<1>4. ASSUME NEW b \in Peers, NEW i \in DOMAIN log[b]
      PROVE  AllHome'
  <2>1. log[b][i] \in Messages /\ Home(log[b][i])
    BY <1>2, <1>4 DEF AllHome
  <2> QED
    BY <1>1, <2>1
<1> QED
  BY <1>3, <1>4 DEF AllHome

LEMMA HomeInvariant == Spec => []AllHome
<1>1. Init => AllHome
  BY DEF Init, AllHome
<1>2. LockstepInv /\ AllHome /\ [Next]_vars => AllHome'
  <2> SUFFICES ASSUME LockstepInv, AllHome, [Next]_vars PROVE AllHome'
    OBVIOUS
  <2>1. ASSUME UNCHANGED <<network, log, threw>>,
               \A b \in Peers : handlers'[b] => handlers[b]
        PROVE  AllHome'
    BY <2>1, OtherHome DEF Grows
  <2>2. CASE UNCHANGED vars
    BY <2>1, <2>2 DEF vars, seatVars
  <2>3. handlers \in [Peers -> BOOLEAN]
    BY DEF LockstepInv, TypeOK
  <2>4. ASSUME NEW p \in Peers,
               \/ Connect(p) \/ Enter(p) \/ Entered(p) \/ EnterFails(p)
               \/ Connected(p) \/ ConnectFails(p) \/ MemberStatus(p)
               \/ Disconnect(p) \/ Left(p)
        PROVE  AllHome'
    <3>1. UNCHANGED <<network, log, threw>>
      BY <2>4 DEF Connect, Enter, Entered, EnterFails, Connected, ConnectFails,
         MemberStatus, Disconnect, Left
    <3>2. \A b \in Peers : handlers'[b] => handlers[b]
      BY <2>3, <2>4 DEF Connect, Enter, Entered, EnterFails, Connected, ConnectFails,
         MemberStatus, Disconnect, Left, seatVars
    <3> QED
      BY <2>1, <3>1, <3>2
  <2>5. ASSUME NEW p \in Peers, Send(p)
        PROVE  AllHome'
    BY <2>5, SendHome
  <2>6. ASSUME NEW p \in Peers, NEW q \in Peers, OnPacket(p, q)
        PROVE  AllHome'
    BY <2>6, OnPacketHome
  <2>7. ASSUME NEW p \in Peers, NEW q \in Peers, NobodyListens(p, q)
        PROVE  AllHome'
    <3>1. /\ network[q][p] # << >> /\ Takes(q, p)
          /\ UNCHANGED <<handlers, log, threw>>
      BY <2>7 DEF NobodyListens, Takes, seatVars
    <3>2. TypeOK
      BY DEF LockstepInv, TypeOK
    <3>3. \A a, b \in Peers : network[a][b] \in Seq(Messages)
      BY <3>2 DEF TypeOK
    <3>4. \A a, b \in Peers :
            \/ network'[a][b] = network[a][b]
            \/ /\ network[a][b] # << >>
               /\ network'[a][b] = Tail(network[a][b])
      BY <3>1, <3>2, TakeChannels
    <3>5. ASSUME NEW a \in Peers, NEW b \in Peers, NEW i \in DOMAIN network'[a][b]
          PROVE  \E j \in DOMAIN network[a][b] :
                   network'[a][b][i] = network[a][b][j]
      <4>1. CASE network'[a][b] = network[a][b]
        BY <3>5, <4>1
      <4>2. CASE network[a][b] # << >> /\ network'[a][b] = Tail(network[a][b])
        BY <3>3, <3>5, <4>2, TailFacts
      <4> QED
        BY <3>4, <4>1, <4>2
    <3> QED
      BY <3>1, <3>5, OtherHome DEF Grows
  <2> QED
    BY <2>2, <2>4, <2>5, <2>6, <2>7 DEF Next
<1> QED
  BY <1>1, <1>2, LockstepInvariant, PTL DEF Spec

\* The engine a turn came from is given it as well, whoever relays it
\* (lockstep-transport.js:94-96), unless a send of its transport has thrown or
\* it has disconnected.
THEOREM OwnTurnsTooHolds == Spec => []OwnTurnsToo
<1>1. LockstepInv /\ AllHome => OwnTurnsToo
  BY DEF AllHome, Home, OwnTurnsToo
<1> QED
  BY <1>1, LockstepInvariant, HomeInvariant, PTL

-----------------------------------------------------------------------------
(***************************************************************************)
(* The engines see the turns of other peers in one order.                  *)
(*                                                                         *)
(* A log says nothing of what the host has relayed and has not arrived     *)
(* yet, so the invariant puts behind each log the host's channel to that   *)
(* engine (Precedes).  A turn enters these places at their ends, at all of *)
(* them in the one step in which the host sends or relays it; moving it    *)
(* from the channel to the log changes nothing.  The other turns are those *)
(* that have not passed the host: a guest's own, in its log.               *)
(***************************************************************************)

\* The turns of a log and of the channel that will be added to it, and their
\* order.
Both(old, new) == Range(old) \cup Range(new)
InOrder(old, new, m, n) ==
  \/ Before(old, m, n)
  \/ m \in Range(old) /\ n \in Range(new)
  \/ Before(new, m, n)

\* What an engine was given or the host has on the way to it.
At(p) == Both(log[p], network[Host][p])
Precedes(p, m, n) == InOrder(log[p], network[Host][p], m, n)

\* The exception of OneOrder: a guest's own turn.
Excepted(p, q, m, n) == {m.from, n.from} \cap ({p, q} \ {Host}) # {}

OneOrderOnTheWay ==
  \A p, q \in Peers : \A m, n \in Messages :
    Precedes(p, m, n) /\ Precedes(q, n, m) => Excepted(p, q, m, n)

\* A turn that did not pass the host is at its sender and at the sender's host.
LogRoutes ==
  \A p \in Peers : \A m \in Range(log[p]) :
    \/ m.from \in {p, Host} \/ hostId[m.from] = Host \/ hostId[m.from] = p

PlacesInv == LockstepInv /\ LogRoutes /\ OneOrderOnTheWay

-----------------------------------------------------------------------------
(* Sequences.                                                              *)

LEMMA BeforeIn ==
  ASSUME NEW s, NEW m, NEW n, Before(s, m, n)
  PROVE  m \in Range(s) /\ n \in Range(s)
BY DEF Before, Range

LEMMA RangeAppend ==
  ASSUME NEW s \in Seq(Messages), NEW k \in Messages
  PROVE  Range(Append(s, k)) \subseteq Range(s) \cup {k}
BY AppendFacts DEF Range

LEMMA BeforeAppend ==
  ASSUME NEW s \in Seq(Messages), NEW k \in Messages, NEW m, NEW n,
         Before(Append(s, k), m, n)
  PROVE  Before(s, m, n) \/ (m \in Range(s) /\ n = k)
<1> PICK i \in DOMAIN Append(s, k), j \in DOMAIN Append(s, k) :
      i < j /\ Append(s, k)[i] = m /\ Append(s, k)[j] = n
  BY DEF Before
<1>1. i \in DOMAIN s /\ Append(s, k)[i] = s[i]
  BY AppendFacts
<1>2. (j \in DOMAIN s /\ Append(s, k)[j] = s[j]) \/ Append(s, k)[j] = k
  BY AppendFacts
<1> QED
  BY <1>1, <1>2 DEF Before, Range

LEMMA TailOrder ==
  ASSUME NEW s \in Seq(Messages), s # << >>
  PROVE  /\ Head(s) \in Range(s)
         /\ Range(Tail(s)) \subseteq Range(s)
         /\ \A n \in Range(Tail(s)) : Before(s, Head(s), n)
         /\ \A m, n : Before(Tail(s), m, n) => Before(s, m, n)
<1>1. Head(s) \in Range(s) /\ Range(Tail(s)) \subseteq Range(s)
  BY TailFacts DEF Range
<1>2. \A n \in Range(Tail(s)) : Before(s, Head(s), n)
  <2> SUFFICES ASSUME NEW i \in DOMAIN Tail(s)
               PROVE  Before(s, Head(s), Tail(s)[i])
    BY DEF Range
  <2>1. 1 \in DOMAIN s /\ i + 1 \in DOMAIN s /\ 1 < i + 1
    BY TailFacts
  <2>2. s[1] = Head(s) /\ s[i + 1] = Tail(s)[i]
    BY TailFacts
  <2> QED
    BY <2>1, <2>2 DEF Before
<1>3. ASSUME NEW m, NEW n, Before(Tail(s), m, n)
      PROVE  Before(s, m, n)
  <2> PICK i \in DOMAIN Tail(s), j \in DOMAIN Tail(s) :
        i < j /\ Tail(s)[i] = m /\ Tail(s)[j] = n
    BY <1>3 DEF Before
  <2>1. /\ i + 1 \in DOMAIN s /\ j + 1 \in DOMAIN s /\ i + 1 < j + 1
        /\ s[i + 1] = m /\ s[j + 1] = n
    BY TailFacts
  <2> QED
    BY <2>1 DEF Before
<1> QED
  BY <1>1, <1>2, <1>3

LEMMA NotIn ==
  ASSUME NEW s \in Seq(Messages), NEW k \in Messages, AllLess(s, k)
  PROVE  k \notin Range(s)
BY DEF AllLess, Less, Messages, Range

-----------------------------------------------------------------------------
(* Places.                                                                 *)

LEMMA PlaceTypes ==
  ASSUME LockstepInv, NEW p \in Peers
  PROVE  /\ log[p] \in Seq(Messages) /\ network[Host][p] \in Seq(Messages)
         /\ Host \in Peers
         /\ At(p) \subseteq Messages
<1>1. Host \in Peers
  BY LockstepAssumption
<1>2. log[p] \in Seq(Messages)
  BY DEF LockstepInv, TypeOK
<1>3. network[Host][p] \in Seq(Messages)
  BY <1>1 DEF LockstepInv, TypeOK
<1> QED
  BY <1>1, <1>2, <1>3 DEF At, Both, Range

LEMMA InOrderIsIn ==
  ASSUME NEW old, NEW new, NEW m, NEW n, InOrder(old, new, m, n)
  PROVE  m \in Both(old, new) /\ n \in Both(old, new)
BY BeforeIn DEF InOrder, Both

\* Where no turn stands twice, their order is one.
LEMMA OneWayRound ==
  ASSUME NEW old \in Seq(Messages), NEW new \in Seq(Messages),
         Sorted(old), Sorted(new), Ahead(old, new), NEW m, NEW n
  PROVE  ~(InOrder(old, new, m, n) /\ InOrder(old, new, n, m))
<1>1. \A k \in Messages : ~Less(k, k)
  BY DEF Less, Messages
<1>2. /\ \A i \in DOMAIN old : old[i] \in Messages
      /\ \A i \in DOMAIN new : new[i] \in Messages
  OBVIOUS
<1>3. /\ \A i, j \in DOMAIN old : i < j => old[i] # old[j]
      /\ \A i, j \in DOMAIN new : i < j => new[i] # new[j]
  BY <1>1, <1>2 DEF Sorted
<1>4. Range(old) \cap Range(new) = {}
  BY <1>1, <1>2 DEF Ahead, Range
<1>5. ~(Before(old, m, n) /\ Before(old, n, m))
  BY <1>3 DEF Before
<1>6. ~(Before(new, m, n) /\ Before(new, n, m))
  BY <1>3 DEF Before
<1>7. /\ Before(old, m, n) \/ Before(old, n, m) =>
           m \in Range(old) /\ n \in Range(old)
      /\ Before(new, m, n) \/ Before(new, n, m) =>
           m \in Range(new) /\ n \in Range(new)
  BY BeforeIn
<1> QED
  BY <1>4, <1>5, <1>6, <1>7 DEF InOrder

LEMMA EnterChannel ==
  ASSUME NEW old, NEW new \in Seq(Messages), NEW k \in Messages, NEW m, NEW n,
         InOrder(old, Append(new, k), m, n)
  PROVE  InOrder(old, new, m, n) \/ n = k
BY RangeAppend, BeforeAppend DEF InOrder

LEMMA EnterLog ==
  ASSUME NEW old \in Seq(Messages), NEW new, NEW k \in Messages, NEW m, NEW n,
         InOrder(Append(old, k), new, m, n)
  PROVE  /\ InOrder(old, new, m, n) \/ m = k \/ n = k
         /\ Range(new) = {} => InOrder(old, new, m, n) \/ n = k
<1>1. Before(Append(old, k), m, n) => Before(old, m, n) \/ n = k
  BY BeforeAppend
<1>2. m \in Range(Append(old, k)) => m \in Range(old) \/ m = k
  BY RangeAppend
<1> QED
  BY <1>1, <1>2 DEF InOrder

LEMMA LeaveChannel ==
  ASSUME NEW old, NEW new \in Seq(Messages), new # << >>, NEW m, NEW n,
         InOrder(old, Tail(new), m, n)
  PROVE  InOrder(old, new, m, n)
BY TailOrder DEF InOrder

LEMMA MoveToLog ==
  ASSUME NEW old \in Seq(Messages), NEW new \in Seq(Messages), new # << >>,
         NEW m, NEW n, InOrder(Append(old, Head(new)), Tail(new), m, n)
  PROVE  InOrder(old, new, m, n)
<1>1. Head(new) \in Messages /\ Head(new) \in Range(new)
  BY TailFacts, TailOrder
<1>2. CASE Before(Append(old, Head(new)), m, n)
  BY <1>1, <1>2, BeforeAppend DEF InOrder
<1>3. CASE m \in Range(Append(old, Head(new))) /\ n \in Range(Tail(new))
  <2>1. m \in Range(old) \/ m = Head(new)
    BY <1>1, <1>3, RangeAppend
  <2>2. n \in Range(new) /\ Before(new, Head(new), n)
    BY <1>3, TailOrder
  <2> QED
    BY <2>1, <2>2 DEF InOrder
<1>4. CASE Before(Tail(new), m, n)
  BY <1>4, TailOrder DEF InOrder
<1> QED
  BY <1>2, <1>3, <1>4 DEF InOrder

\* The same of the places of an engine, after a step.
LEMMA OneWayNext ==
  ASSUME LockstepInv', NEW p \in Peers, NEW m, NEW n
  PROVE  ~(Precedes(p, m, n)' /\ Precedes(p, n, m)')
<1>1. Host \in Peers
  BY LockstepAssumption
<1>2. log'[p] \in Seq(Messages)
  BY DEF LockstepInv, TypeOK
<1>3. network'[Host][p] \in Seq(Messages)
  BY <1>1 DEF LockstepInv, TypeOK
<1>4. Sorted(log'[p]) /\ Sorted(network'[Host][p]) /\ Ahead(log'[p], network'[Host][p])
  BY <1>1 DEF LockstepInv, OrderInv, AllSorted, LogsAhead
<1> QED
  BY <1>2, <1>3, <1>4, OneWayRound DEF Precedes

-----------------------------------------------------------------------------
(* The three ways in which places change.                                  *)

\* Turns only move or go.
LEMMA NothingNew ==
  ASSUME PlacesInv,
         \A p \in Peers : \A m, n \in Messages :
           Precedes(p, m, n)' => Precedes(p, m, n)
  PROVE  OneOrderOnTheWay'
BY DEF PlacesInv, OneOrderOnTheWay, Excepted

\* A turn that no other engine has yet enters at the ends.
LEMMA NewAtTheEnds ==
  ASSUME PlacesInv, LockstepInv', NEW k \in Messages,
         \A p \in Peers : k \in At(p) => p = k.from /\ p # Host,
         \A p \in Peers : \A m, n \in Messages :
           Precedes(p, m, n)' => Precedes(p, m, n) \/ n = k
  PROVE  OneOrderOnTheWay'
<1> SUFFICES ASSUME NEW p \in Peers, NEW q \in Peers,
                    NEW m \in Messages, NEW n \in Messages,
                    Precedes(p, m, n)', Precedes(q, n, m)',
                    ~Excepted(p, q, m, n)
             PROVE  FALSE
  BY DEF OneOrderOnTheWay, Excepted
<1>1. Precedes(p, m, n) \/ n = k
  OBVIOUS
<1>2. Precedes(q, n, m) \/ m = k
  OBVIOUS
<1>3. ~(m = k /\ n = k)
  <2>1. ~(Precedes(p, k, k)')
    BY OneWayNext
  <2> QED
    BY <2>1 DEF Precedes
<1>4. CASE n = k /\ m # k
  <2>1. k \in At(q)
    BY <1>2, <1>4, InOrderIsIn DEF Precedes, At
  <2> QED
    BY <1>4, <2>1 DEF Excepted
<1>5. CASE m = k /\ n # k
  <2>1. k \in At(p)
    BY <1>1, <1>5, InOrderIsIn DEF Precedes, At
  <2> QED
    BY <1>5, <2>1 DEF Excepted
<1>6. CASE m # k /\ n # k
  BY <1>1, <1>2, <1>6 DEF PlacesInv, OneOrderOnTheWay
<1> QED
  BY <1>3, <1>4, <1>5, <1>6

\* A turn that does not pass the host is at no two engines but its own and one.
LEMMA NewAside ==
  ASSUME PlacesInv, LockstepInv', NEW k \in Messages,
         \A p, q \in Peers :
           p # q /\ k \in At(p)' /\ k \in At(q)' => k.from \in {p, q} \ {Host},
         \A p \in Peers : \A m, n \in Messages :
           Precedes(p, m, n)' => Precedes(p, m, n) \/ m = k \/ n = k
  PROVE  OneOrderOnTheWay'
<1> SUFFICES ASSUME NEW p \in Peers, NEW q \in Peers,
                    NEW m \in Messages, NEW n \in Messages,
                    Precedes(p, m, n)', Precedes(q, n, m)',
                    ~Excepted(p, q, m, n)
             PROVE  FALSE
  BY DEF OneOrderOnTheWay, Excepted
<1>1. p # q
  BY OneWayNext
<1>2. /\ m \in At(p)' /\ n \in At(p)'
      /\ m \in At(q)' /\ n \in At(q)'
  BY InOrderIsIn DEF Precedes, At
<1>3. m # k /\ n # k
  BY <1>1, <1>2 DEF Excepted
<1> QED
  BY <1>3 DEF PlacesInv, OneOrderOnTheWay

-----------------------------------------------------------------------------
(* The steps.                                                              *)

LEMMA NoChannelToSelf ==
  ASSUME LockstepInv
  PROVE  Range(network[Host][Host]) = {}
BY LockstepAssumption DEF LockstepInv, OrderInv, Routed, OnRoute, Range

\* A log that has grown by a turn with a route keeps its routes.
LEMMA RoutesKept ==
  ASSUME PlacesInv, UNCHANGED hostId, NEW p \in Peers, NEW k \in Messages,
         \A b \in Peers :
           log'[b] = log[b] \/ (b = p /\ log'[b] = Append(log[b], k)),
         \/ k.from \in {p, Host} \/ hostId[k.from] = Host \/ hostId[k.from] = p
  PROVE  LogRoutes'
<1> SUFFICES ASSUME NEW b \in Peers, NEW m \in Range(log'[b])
             PROVE  \/ m.from \in {b, Host} \/ hostId[m.from] = Host
                    \/ hostId[m.from] = b
  BY DEF LogRoutes
<1>1. CASE m \in Range(log[b])
  BY <1>1 DEF PlacesInv, LogRoutes
<1>2. CASE b = p /\ m = k
  BY <1>2
<1>3. CASE b = p /\ log'[b] = Append(log[b], k)
  <2>1. log[b] \in Seq(Messages)
    BY PlaceTypes DEF PlacesInv
  <2>2. m \in Range(Append(log[b], k))
    BY <1>3
  <2>3. m \in Range(log[b]) \cup {k}
    BY <2>1, <2>2, RangeAppend
  <2> QED
    BY <1>1, <1>2, <1>3, <2>3
<1> QED
  BY <1>1, <1>3

LEMMA SendPlaces ==
  ASSUME PlacesInv, NEW p \in Peers, Send(p)
  PROVE  PlacesInv'
<1> USE DEF PlacesInv
<1> PICK k : k = [from |-> p, turn |-> turns[p] + 1]
  OBVIOUS
<1>1. k \in Messages /\ k.from = p /\ UNCHANGED hostId
  BY SendFacts DEF LockstepInv, seatVars
<1>2. PICK reached :
        /\ \A b \in reached : b \in Peers /\ b # p
        /\ Sends(p, reached, k) /\ \E all \in BOOLEAN : Deliver(p, k, all)
  BY SendFacts DEF LockstepInv
<1>3. TypeOK
  BY DEF LockstepInv, TypeOK
<1>4. \A b \in Peers : log'[b] = log[b] \/ (b = p /\ log'[b] = Append(log[b], k))
  BY <1>2, <1>3, DeliverFacts
<1>5. \A a, b \in Peers :
        \/ network'[a][b] = network[a][b]
        \/ a = p /\ b # p /\ network'[a][b] = Append(network[a][b], k)
  BY <1>1, <1>2, <1>3, SendChannels
<1>6. LockstepInv'
  BY SendOrder
<1>7. LogRoutes'
  BY <1>1, <1>4, RoutesKept
<1>8. Host \in Peers
  BY LockstepAssumption
<1>9. ASSUME NEW b \in Peers
      PROVE  k \notin At(b)
  <2>1. AllLess(log[b], k) /\ AllLess(network[Host][b], k)
    BY <1>8, NextIsLast
  <2> QED
    BY <1>1, <2>1, PlaceTypes, NotIn DEF At, Both
<1>10. CASE p = Host
  <2>1. ASSUME NEW b \in Peers, NEW m, NEW n, Precedes(b, m, n)'
        PROVE  Precedes(b, m, n) \/ n = k
    <3>1. log[b] \in Seq(Messages) /\ network[Host][b] \in Seq(Messages)
      BY PlaceTypes
    <3>2. InOrder(log'[b], network'[Host][b], m, n)
      BY <2>1 DEF Precedes
    <3>3. CASE b = Host
      <4>1. /\ network'[Host][b] = network[Host][b]
            /\ Range(network[Host][b]) = {}
        BY <1>5, <1>8, <1>10, <3>3, NoChannelToSelf
      <4>2. CASE log'[b] = log[b]
        BY <3>2, <4>1, <4>2 DEF Precedes
      <4>3. CASE log'[b] = Append(log[b], k)
        <5>1. InOrder(Append(log[b], k), network[Host][b], m, n)
          BY <3>2, <4>1, <4>3
        <5>2. InOrder(log[b], network[Host][b], m, n) \/ n = k
          BY <1>1, <3>1, <4>1, <5>1, EnterLog
        <5> QED
          BY <5>2 DEF Precedes
      <4> QED
        BY <1>4, <4>2, <4>3
    <3>4. CASE b # Host
      <4>1. log'[b] = log[b]
        BY <1>4, <1>10, <3>4
      <4>2. CASE network'[Host][b] = network[Host][b]
        BY <3>2, <4>1, <4>2 DEF Precedes
      <4>3. CASE network'[Host][b] = Append(network[Host][b], k)
        BY <1>1, <3>1, <3>2, <4>1, <4>3, EnterChannel DEF Precedes
      <4> QED
        BY <1>5, <1>8, <4>2, <4>3
    <3> QED
      BY <3>3, <3>4
  <2> QED
    BY <1>1, <1>6, <1>7, <1>9, <2>1, NewAtTheEnds
<1>11. CASE p # Host
  <2>1. \A b \in Peers : network'[Host][b] = network[Host][b]
    BY <1>5, <1>8, <1>11
  <2>2. ASSUME NEW b \in Peers, NEW m, NEW n, Precedes(b, m, n)'
        PROVE  Precedes(b, m, n) \/ m = k \/ n = k
    <3>1. log[b] \in Seq(Messages)
      BY PlaceTypes
    <3>2. InOrder(log'[b], network[Host][b], m, n)
      BY <2>1, <2>2 DEF Precedes
    <3>3. CASE log'[b] = log[b]
      BY <3>2, <3>3 DEF Precedes
    <3>4. CASE log'[b] = Append(log[b], k)
      BY <1>1, <3>1, <3>2, <3>4, EnterLog DEF Precedes
    <3> QED
      BY <1>4, <3>3, <3>4
  <2>3. ASSUME NEW b \in Peers, k \in At(b)'
        PROVE  b = p
    <3>1. b # p => At(b)' = At(b)
      BY <1>4, <2>1 DEF At, Both
    <3> QED
      BY <1>9, <2>3, <3>1
  <2>4. \A a, b \in Peers :
          a # b /\ k \in At(a)' /\ k \in At(b)' => k.from \in {a, b} \ {Host}
    BY <2>3
  <2> QED
    BY <1>1, <1>6, <1>7, <2>2, <2>4, NewAside
<1> QED
  BY <1>10, <1>11

\* A packet of the host comes to a guest: the turn moves.
LEMMA FromHostPlaces ==
  ASSUME PlacesInv, NEW p \in Peers, OnPacket(p, Host)
  PROVE  PlacesInv'
<1> USE DEF PlacesInv
<1> PICK k : k = Head(network[Host][p])
  OBVIOUS
<1>1. /\ network[Host][p] # << >> /\ k \in Messages /\ UNCHANGED hostId
      /\ Host \in Peers
  BY LockstepAssumption, OnPacketFacts DEF LockstepInv, seatVars
<1>2. PICK reached :
        /\ \A b \in reached : p = Host
        /\ TakesAndSends(Host, p, reached, k)
        /\ \E all \in BOOLEAN : Deliver(p, k, all)
  BY <1>1, OnPacketFacts DEF LockstepInv
<1>3. TypeOK
  BY DEF LockstepInv, TypeOK
<1>4. \A b \in Peers : log'[b] = log[b] \/ (b = p /\ log'[b] = Append(log[b], k))
  BY <1>2, <1>3, DeliverFacts
<1>5. k \in Range(network[Host][p])
  BY <1>1, PlaceTypes, TailOrder
<1>6. OnRoute(Host, p, k)
  BY <1>1, <1>5 DEF LockstepInv, OrderInv, Routed, Range
<1>7. p # Host
  BY <1>6 DEF OnRoute
<1>8. \A b \in Peers :
        \/ b = p /\ network'[Host][b] = Tail(network[Host][b])
        \/ b # p /\ network'[Host][b] = network[Host][b]
  BY <1>1, <1>2, <1>3, <1>7, OnPacketChannels
<1>9. LockstepInv'
  BY <1>1, OnPacketOrder
<1>10. LogRoutes'
  BY <1>1, <1>4, <1>6, RoutesKept DEF OnRoute
<1>11. ASSUME NEW b \in Peers, NEW m, NEW n, Precedes(b, m, n)'
       PROVE  Precedes(b, m, n)
  <2>1. log[b] \in Seq(Messages) /\ network[Host][b] \in Seq(Messages)
    BY PlaceTypes
  <2>2. InOrder(log'[b], network'[Host][b], m, n)
    BY <1>11 DEF Precedes
  <2>3. CASE b # p
    <3>1. log'[b] = log[b] /\ network'[Host][b] = network[Host][b]
      BY <1>4, <1>8, <2>3
    <3> QED
      BY <2>2, <3>1 DEF Precedes
  <2>4. CASE b = p
    <3>1. network'[Host][b] = Tail(network[Host][b]) /\ network[Host][b] # << >>
      BY <1>1, <1>8, <2>4
    <3>2. CASE log'[b] = log[b]
      BY <2>1, <2>2, <3>1, <3>2, LeaveChannel DEF Precedes
    <3>3. CASE log'[b] = Append(log[b], Head(network[Host][b]))
      BY <2>1, <2>2, <3>1, <3>3, MoveToLog DEF Precedes
    <3> QED
      BY <1>4, <2>4, <3>2, <3>3
  <2> QED
    BY <2>3, <2>4
<1> QED
  BY <1>9, <1>10, <1>11, NothingNew

\* A packet of a guest comes to its host, who is not Host: the turn goes no
\* further.
LEMMA AsidePlaces ==
  ASSUME PlacesInv, NEW p \in Peers, NEW q \in Peers, OnPacket(p, q),
         p # Host, q # Host
  PROVE  PlacesInv'
<1> USE DEF PlacesInv
<1> PICK k : k = Head(network[q][p])
  OBVIOUS
<1>1. /\ network[q][p] # << >> /\ k \in Messages /\ UNCHANGED hostId
      /\ Host \in Peers
  BY LockstepAssumption, OnPacketFacts DEF LockstepInv, seatVars
<1>2. PICK reached :
        /\ \A b \in reached : p = Host
        /\ TakesAndSends(q, p, reached, k)
        /\ \E all \in BOOLEAN : Deliver(p, k, all)
  BY <1>1, OnPacketFacts DEF LockstepInv
<1>3. TypeOK
  BY DEF LockstepInv, TypeOK
<1>4. \A b \in Peers : log'[b] = log[b] \/ (b = p /\ log'[b] = Append(log[b], k))
  BY <1>2, <1>3, DeliverFacts
<1>5. k \in Range(network[q][p])
  <2>1. network[q][p] \in Seq(Messages)
    BY <1>3 DEF TypeOK
  <2> QED
    BY <1>1, <2>1, TailOrder
<1>6. OnRoute(q, p, k)
  BY <1>5 DEF LockstepInv, OrderInv, Routed, Range
<1>7. k.from = q /\ hostId[q] = p /\ p # q
  BY <1>6 DEF OnRoute
<1>8. \A b \in Peers : network'[Host][b] = network[Host][b]
  BY <1>1, <1>2, <1>3, <1>7, OnPacketChannels
<1>9. LockstepInv'
  BY OnPacketOrder
<1>10. LogRoutes'
  BY <1>1, <1>4, <1>7, RoutesKept
<1>11. ASSUME NEW b \in Peers, NEW m, NEW n, Precedes(b, m, n)'
       PROVE  Precedes(b, m, n) \/ m = k \/ n = k
  <2>1. log[b] \in Seq(Messages)
    BY PlaceTypes
  <2>2. InOrder(log'[b], network[Host][b], m, n)
    BY <1>8, <1>11 DEF Precedes
  <2>3. CASE log'[b] = log[b]
    BY <2>2, <2>3 DEF Precedes
  <2>4. CASE log'[b] = Append(log[b], k)
    <3>1. InOrder(Append(log[b], k), network[Host][b], m, n)
      BY <2>2, <2>4
    <3>2. InOrder(log[b], network[Host][b], m, n) \/ m = k \/ n = k
      BY <1>1, <2>1, <3>1, EnterLog
    <3> QED
      BY <3>2 DEF Precedes
  <2> QED
    BY <1>4, <2>3, <2>4
<1>12. ASSUME NEW b \in Peers, k \in At(b)'
       PROVE  b \in {p, q}
  <2>1. CASE k \in Range(log'[b])
    <3>1. \/ k.from \in {b, Host} \/ hostId'[k.from] = Host
          \/ hostId'[k.from] = b
      BY <1>10, <2>1 DEF LogRoutes
    <3> QED
      BY <1>1, <1>7, <3>1
  <2>2. CASE k \in Range(network[Host][b])
    <3>1. OnRoute(Host, b, k)
      BY <1>1, <2>2 DEF LockstepInv, OrderInv, Routed, Range
    <3> QED
      BY <1>7, <3>1 DEF OnRoute
  <2> QED
    BY <1>8, <1>12, <2>1, <2>2 DEF At, Both
<1>13. \A a, b \in Peers :
         a # b /\ k \in At(a)' /\ k \in At(b)' => k.from \in {a, b} \ {Host}
  BY <1>7, <1>12
<1> QED
  BY <1>1, <1>9, <1>10, <1>11, <1>13, NewAside

\* A packet of a guest comes to the host, who relays it.
LEMMA RelayPlaces ==
  ASSUME PlacesInv, NEW q \in Peers, OnPacket(Host, q)
  PROVE  PlacesInv'
<1> USE DEF PlacesInv
<1> PICK k : k = Head(network[q][Host])
  OBVIOUS
<1>1. Host \in Peers
  BY LockstepAssumption
<1>2. network[q][Host] # << >> /\ k \in Messages /\ UNCHANGED hostId
  BY <1>1, OnPacketFacts DEF LockstepInv, seatVars
<1>3. PICK reached :
        /\ \A b \in reached : b \in Peers /\ b # Host
        /\ TakesAndSends(q, Host, reached, k)
        /\ \E all \in BOOLEAN : Deliver(Host, k, all)
  BY <1>1, OnPacketFacts DEF LockstepInv
<1>4. TypeOK
  BY DEF LockstepInv, TypeOK
<1>5. \A b \in Peers :
        log'[b] = log[b] \/ (b = Host /\ log'[b] = Append(log[b], k))
  BY <1>1, <1>3, <1>4, DeliverFacts
<1>6. network[q][Host] \in Seq(Messages)
  BY <1>1, <1>4 DEF TypeOK
<1>7. k \in Range(network[q][Host])
  BY <1>2, <1>6, TailOrder
<1>8. OnRoute(q, Host, k)
  BY <1>1, <1>7 DEF LockstepInv, OrderInv, Routed, Range
<1>9. k.from = q /\ hostId[q] = Host /\ q # Host
  BY <1>8 DEF OnRoute
<1>10. \A b \in Peers :
         \/ network'[Host][b] = network[Host][b]
         \/ b # Host /\ network'[Host][b] = Append(network[Host][b], k)
  BY <1>1, <1>2, <1>3, <1>4, <1>9, OnPacketChannels
<1>11. LockstepInv'
  BY <1>1, OnPacketOrder
<1>12. LogRoutes'
  BY <1>1, <1>2, <1>5, <1>9, RoutesKept
<1>13. ASSUME NEW b \in Peers, b # q
       PROVE  k \notin At(b)
  <2>1. log[b] \in Seq(Messages) /\ network[Host][b] \in Seq(Messages)
    BY PlaceTypes
  <2>2. k \notin Range(log[b])
    <3>1. Ahead(log[b], network[q][Host])
      BY <1>9, <1>13 DEF LockstepInv, OrderInv, HostAhead
    <3>2. AllLess(log[b], k)
      BY <1>2, <1>6, <2>1, <3>1, AheadTail
    <3> QED
      BY <1>2, <2>1, <3>2, NotIn
  <2>3. k \notin Range(network[Host][b])
    <3>1. CASE b = Host
      BY <3>1, NoChannelToSelf
    <3>2. CASE b # Host
      <4>1. Ahead(network[Host][b], network[q][Host])
        BY <1>9, <3>2 DEF LockstepInv, OrderInv, RelayAhead
      <4>2. AllLess(network[Host][b], k)
        BY <1>2, <1>6, <2>1, <4>1, AheadTail
      <4> QED
        BY <1>2, <2>1, <4>2, NotIn
    <3> QED
      BY <3>1, <3>2
  <2> QED
    BY <2>2, <2>3 DEF At, Both
<1>14. ASSUME NEW b \in Peers, NEW m, NEW n, Precedes(b, m, n)'
       PROVE  Precedes(b, m, n) \/ n = k
  <2>1. log[b] \in Seq(Messages) /\ network[Host][b] \in Seq(Messages)
    BY PlaceTypes
  <2>2. InOrder(log'[b], network'[Host][b], m, n)
    BY <1>14 DEF Precedes
  <2>3. CASE b = Host
    <3>1. network'[Host][b] = network[Host][b]
      BY <1>1, <1>10, <2>3
    <3>2. Range(network[Host][b]) = {}
      BY <2>3, NoChannelToSelf
    <3>3. CASE log'[b] = log[b]
      BY <2>2, <3>1, <3>3 DEF Precedes
    <3>4. CASE log'[b] = Append(log[b], k)
      BY <1>2, <2>1, <2>2, <3>1, <3>2, <3>4, EnterLog DEF Precedes
    <3> QED
      BY <1>5, <3>3, <3>4
  <2>4. CASE b # Host
    <3>1. log'[b] = log[b]
      BY <1>5, <2>4
    <3>2. CASE network'[Host][b] = network[Host][b]
      BY <2>2, <3>1, <3>2 DEF Precedes
    <3>3. CASE network'[Host][b] = Append(network[Host][b], k)
      BY <1>2, <2>1, <2>2, <3>1, <3>3, EnterChannel DEF Precedes
    <3> QED
      BY <1>10, <3>2, <3>3
  <2> QED
    BY <2>3, <2>4
<1> QED
  BY <1>2, <1>9, <1>11, <1>12, <1>13, <1>14, NewAtTheEnds

LEMMA NobodyListensPlaces ==
  ASSUME PlacesInv, NEW p \in Peers, NEW q \in Peers, NobodyListens(p, q)
  PROVE  PlacesInv'
<1> USE DEF PlacesInv
<1>1. /\ network[q][p] # << >> /\ Takes(q, p) /\ UNCHANGED <<hostId, log>>
      /\ Host \in Peers
  BY LockstepAssumption DEF NobodyListens, Takes, seatVars
<1>2. TypeOK
  BY DEF LockstepInv, TypeOK
<1>3. \A a, b \in Peers :
        \/ network'[a][b] = network[a][b]
        \/ network[a][b] # << >> /\ network'[a][b] = Tail(network[a][b])
  BY <1>1, <1>2, TakeChannels
<1>4. ASSUME NEW b \in Peers, NEW m, NEW n, Precedes(b, m, n)'
      PROVE  Precedes(b, m, n)
  <2>1. network[Host][b] \in Seq(Messages)
    BY PlaceTypes
  <2>2. InOrder(log[b], network'[Host][b], m, n)
    BY <1>1, <1>4 DEF Precedes
  <2>3. CASE network'[Host][b] = network[Host][b]
    BY <2>2, <2>3 DEF Precedes
  <2>4. CASE network[Host][b] # << >> /\ network'[Host][b] = Tail(network[Host][b])
    BY <2>1, <2>2, <2>4, LeaveChannel DEF Precedes
  <2> QED
    BY <1>1, <1>3, <2>3, <2>4
<1>5. LogRoutes'
  BY <1>1 DEF LogRoutes
<1>6. LockstepInv'
  BY NobodyListensOrder
<1> QED
  BY <1>4, <1>5, <1>6, NothingNew

LEMMA QuietPlaces ==
  ASSUME PlacesInv, LockstepInv', UNCHANGED <<network, log>>,
         \A q \in Peers : phase[q] \in Joined => hostId'[q] = hostId[q]
  PROVE  PlacesInv'
<1> USE DEF PlacesInv
<1>1. LogRoutes'
  <2> SUFFICES ASSUME NEW b \in Peers, NEW m \in Range(log[b])
               PROVE  hostId'[m.from] = hostId[m.from]
    BY DEF LogRoutes
  <2>1. log[b] \in Seq(Messages)
    BY PlaceTypes
  <2>2. m \in Messages /\ Counted(m)
    BY <2>1 DEF LockstepInv, OrderInv, AllCounted, Range
  <2>3. m.from \in Peers /\ m.turn \in Nat \ {0} /\ turns[m.from] \in Nat
    <3>1. turns \in [Peers -> Nat]
      BY DEF LockstepInv, TypeOK
    <3> QED
      BY <2>2, <3>1 DEF Messages
  <2>4. turns[m.from] > 0
    BY <2>2, <2>3 DEF Counted
  <2> QED
    BY <2>3, <2>4 DEF LockstepInv, OrderInv, Started
<1>2. OneOrderOnTheWay'
  BY DEF OneOrderOnTheWay, Excepted, Precedes
<1> QED
  BY <1>1, <1>2

LEMMA PlacesInvariant == Spec => []PlacesInv
<1>1. Init => PlacesInv
  <2> SUFFICES ASSUME Init PROVE PlacesInv
    OBVIOUS
  <2>1. LockstepInv
    BY InitTypes, InitOrder DEF LockstepInv
  <2>2. /\ \A p \in Peers : Range(log[p]) = {}
        /\ \A p \in Peers : Range(network[Host][p]) = {}
    BY LockstepAssumption DEF Init, Range
  <2>3. LogRoutes
    BY <2>2 DEF LogRoutes
  <2>4. \A p \in Peers : \A m, n : ~Precedes(p, m, n)
    BY <2>2, BeforeIn DEF Precedes, InOrder
  <2>5. OneOrderOnTheWay
    BY <2>4 DEF OneOrderOnTheWay
  <2> QED
    BY <2>1, <2>3, <2>5 DEF PlacesInv
<1>2. PlacesInv /\ [Next]_vars => PlacesInv'
  <2> SUFFICES ASSUME PlacesInv, [Next]_vars PROVE PlacesInv'
    OBVIOUS
  <2>1. LockstepInv
    BY DEF PlacesInv
  <2>2. CASE UNCHANGED vars
    <3>1. UNCHANGED <<phase, peerIds, hostId, handlers, missed, members, cache,
                      network, turns, log, threw>>
      BY <2>2 DEF vars, seatVars, lobbyVars
    <3>2. TypeOK'
      BY <2>1, <3>1 DEF LockstepInv, TypeOK
    <3>3. LockstepInv'
      BY <2>1, <3>1, <3>2, QuietOrder DEF LockstepInv
    <3> QED
      BY <3>1, <3>3, QuietPlaces
  <2>3. ASSUME NEW p \in Peers,
               \/ Connect(p) \/ Enter(p) \/ Entered(p) \/ EnterFails(p)
               \/ Connected(p) \/ ConnectFails(p) \/ MemberStatus(p)
               \/ Disconnect(p) \/ Left(p)
        PROVE  PlacesInv'
    <3>1. LockstepInv'
      BY <2>1, <2>3, QuietSteps
    <3>2. UNCHANGED <<network, log>>
      BY <2>3 DEF Connect, Enter, Entered, EnterFails, Connected, ConnectFails,
         MemberStatus, Disconnect, Left
    <3>3. hostId \in [Peers -> {Host, Nobody}]
      BY <2>1 DEF LockstepInv, TypeOK
    <3>4. \A q \in Peers : phase[q] \in Joined => hostId'[q] = hostId[q]
      BY <2>3, <3>3 DEF Connect, Enter, Entered, EnterFails, Connected, ConnectFails,
         MemberStatus, Disconnect, Left, Move, seatVars, Joined
    <3> QED
      BY <3>1, <3>2, <3>4, QuietPlaces
  <2>4. ASSUME NEW p \in Peers, Send(p)
        PROVE  PlacesInv'
    BY <2>4, SendPlaces
  <2>5. ASSUME NEW p \in Peers, NEW q \in Peers, OnPacket(p, q)
        PROVE  PlacesInv'
    BY <2>5, FromHostPlaces, AsidePlaces, RelayPlaces
  <2>6. ASSUME NEW p \in Peers, NEW q \in Peers, NobodyListens(p, q)
        PROVE  PlacesInv'
    BY <2>6, NobodyListensPlaces
  <2> QED
    BY <2>2, <2>3, <2>4, <2>5, <2>6 DEF Next
<1> QED
  BY <1>1, <1>2, PTL DEF Spec

\* What the star is for: two engines are given the turns of other peers in one
\* order, whoever leaves and whichever sends throw.
THEOREM OneOrderHolds == Spec => []OneOrder
<1>1. PlacesInv => OneOrder
  <2> SUFFICES ASSUME PlacesInv, NEW p \in Peers, NEW q \in Peers,
                      NEW m \in Range(log[p]), NEW n \in Range(log[p]),
                      Before(log[p], m, n), Before(log[q], n, m)
               PROVE  Excepted(p, q, m, n)
    BY DEF OneOrder, Excepted
  <2>1. m \in Messages /\ n \in Messages
    BY PlaceTypes DEF PlacesInv, At, Both
  <2> QED
    BY <2>1 DEF PlacesInv, OneOrderOnTheWay, Precedes, InOrder
<1> QED
  BY <1>1, PlacesInvariant, PTL
=============================================================================
