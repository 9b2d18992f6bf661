--------------------------- MODULE DispatchProofs ---------------------------
(***************************************************************************)
(* For any channels, and whoever is configured again while packets are     *)
(* under way: fragments never surface as 'p2p:packet' while the two ends   *)
(* agree on a channel, and when they do not, what the Reassembler delivers *)
(* stays as genuine as in ReassemblyProofs, its table as accounted for as  *)
(* in AccountingProofs, and messages still travel by the channel of module *)
(* MessageChannel.                                                         *)
(***************************************************************************)
EXTENDS Dispatch, AccountingProofs

\* Each packet under way has its channel, and those of a sender that always
\* agreed with this process are on the channel this process expects, the
\* application's own packets excepted.
ChannelInv ==
  /\ fragmentChannel \in [Peers \cup {Here} -> Int]
  /\ channel \in [Peers -> Seq(Int)]
  /\ surfaced \in [Peers -> Seq(PacketType)]
  /\ \A p \in Peers : Len(channel[p]) = Len(network[p])
  /\ \A p \in Peers \ apart : Agrees(p)
  /\ \A p \in Peers \ apart : \A i \in DOMAIN network[p] :
       network[p][i] = ForeignPacket \/ channel[p][i] = fragmentChannel[Here]

DispatchInv == ReassemblyInv /\ ChannelInv /\ HalvesNeverSurface

LEMMA DispatchInitInv == DispatchInit => DispatchInv
<1> SUFFICES ASSUME DispatchInit PROVE DispatchInv
  OBVIOUS
<1>1. ReassemblyInv
  BY InitInv DEF DispatchInit
<1>2. fragmentChannel \in [Peers \cup {Here} -> Int]
  <2>1. Channels \cup {DEFAULT_FRAGMENT_CHANNEL} \subseteq Int
    BY DispatchAssumption DEF DEFAULT_FRAGMENT_CHANNEL
  <2> QED
    BY <2>1 DEF DispatchInit
<1>3. \A p \in Peers : channel[p] = << >> /\ network[p] = << >>
  BY DEF DispatchInit, Init
<1>4. channel \in [Peers -> Seq(Int)]
  BY DEF DispatchInit
<1>5. surfaced \in [Peers -> Seq(PacketType)]
  BY DEF DispatchInit
<1>6. \A p \in Peers \ apart : Agrees(p)
  BY DEF DispatchInit
<1>7. ChannelInv
  BY <1>2, <1>3, <1>4, <1>5, <1>6 DEF ChannelInv
<1>8. HalvesNeverSurface
  BY DEF DispatchInit, HalvesNeverSurface
<1> QED
  BY <1>1, <1>7, <1>8 DEF DispatchInv

\* Once parted, a sender stays parted; the others agree after the step.
LEMMA ApartGrows ==
  ASSUME apart' = apart \cup {p \in Peers : ~Agrees(p)'}
  PROVE  \A p \in Peers \ apart' : p \in Peers \ apart /\ Agrees(p)'
OBVIOUS

LEMMA ConfigureInv ==
  ASSUME DispatchInv, NEW q \in Peers \cup {Here}, NEW ch \in Channels,
         Configure(q, ch), apart' = apart \cup {p \in Peers : ~Agrees(p)'}
  PROVE  DispatchInv'
<1>1. /\ UNCHANGED <<nextMessageId, sent, network, receiverVars>>
      /\ UNCHANGED <<channel, surfaced>>
      /\ fragmentChannel' = [fragmentChannel EXCEPT ![q] = ch]
  BY DEF Configure
<1>2. ReassemblyInv'
  BY <1>1, NetworkStepInv DEF DispatchInv, ReassemblyInv, SendersInv, NetworkInv
<1>3. fragmentChannel' \in [Peers \cup {Here} -> Int]
  BY <1>1, DispatchAssumption DEF DispatchInv, ChannelInv
<1>4. \A p \in Peers \ apart' :
        /\ p \in Peers \ apart
        /\ Agrees(p)'
        /\ fragmentChannel'[Here] = fragmentChannel[Here]
  <2> SUFFICES ASSUME NEW p \in Peers \ apart'
               PROVE  fragmentChannel'[Here] = fragmentChannel[Here]
    BY ApartGrows
  <2>1. /\ fragmentChannel[p] = fragmentChannel[Here]
        /\ fragmentChannel'[p] = fragmentChannel'[Here]
        /\ p # Here
    BY ApartGrows, DispatchAssumption DEF DispatchInv, ChannelInv, Agrees
  <2> QED
    BY <1>1, <2>1 DEF DispatchInv, ChannelInv
<1>5. ChannelInv'
  BY <1>1, <1>3, <1>4 DEF DispatchInv, ChannelInv
<1>6. HalvesNeverSurface'
  BY <1>1, <1>4 DEF DispatchInv, HalvesNeverSurface
<1> QED
  BY <1>2, <1>5, <1>6 DEF DispatchInv

LEMMA WaitInv ==
  ASSUME DispatchInv, WaitBetweenPackets,
         apart' = apart \cup {p \in Peers : ~Agrees(p)'}
  PROVE  DispatchInv'
<1>1. UNCHANGED <<network, fragmentChannel, channel, surfaced>>
  BY DEF WaitBetweenPackets, TimePasses
<1>2. ReassemblyInv'
  BY TimePassesInv DEF DispatchInv, WaitBetweenPackets
<1>3. ChannelInv'
  BY <1>1, ApartGrows DEF DispatchInv, ChannelInv
<1>4. HalvesNeverSurface'
  BY <1>1, ApartGrows DEF DispatchInv, HalvesNeverSurface
<1> QED
  BY <1>2, <1>3, <1>4 DEF DispatchInv

\* What is sent goes by a channel that this process takes for its fragments, or
\* is a packet of the application's own.
LEMMA SentByInv ==
  ASSUME DispatchInv, ReassemblyInv', NEW p \in Peers, NEW ch \in Int,
         NEW pieces \in Seq(PacketType),
         network' = [network EXCEPT ![p] = @ \o pieces],
         \/ ch = fragmentChannel[p]
         \/ \A n \in DOMAIN pieces : pieces[n] = ForeignPacket,
         SentBy(p, ch), UNCHANGED <<fragmentChannel, surfaced>>,
         apart' = apart \cup {r \in Peers : ~Agrees(r)'}
  PROVE  DispatchInv'
<1> DEFINE bytesOut == [n \in 1..Len(pieces) |-> OnWire(ch)]
<1>1. /\ network \in [Peers -> Seq(PacketType)]
      /\ channel \in [Peers -> Seq(Int)]
      /\ Len(channel[p]) = Len(network[p])
  BY DEF DispatchInv, ReassemblyInv, NetworkInv, ChannelInv
<1>2. network'[p] = network[p] \o pieces
  BY <1>1
<1>3. Len(network'[p]) - Len(network[p]) = Len(pieces)
  BY <1>1, <1>2
<1>4. channel' = [channel EXCEPT ![p] = @ \o bytesOut]
  BY <1>3 DEF SentBy
<1>5. OnWire(ch) \in Int
  BY DEF OnWire
<1>6. /\ bytesOut \in Seq(Int) /\ Len(bytesOut) = Len(pieces)
      /\ \A n \in 1..Len(pieces) : bytesOut[n] = OnWire(ch)
  BY <1>5
<1> HIDE DEF bytesOut
<1>7. channel' \in [Peers -> Seq(Int)]
  BY <1>1, <1>4, <1>6
<1>8. \A q \in Peers : Len(channel'[q]) = Len(network'[q])
  <2> SUFFICES ASSUME NEW q \in Peers
               PROVE  Len(channel'[q]) = Len(network'[q])
    OBVIOUS
  <2>1. CASE q = p
    <3>1. channel'[p] = channel[p] \o bytesOut
      BY <1>1, <1>4
    <3>2. Len(channel[p] \o bytesOut) = Len(channel[p]) + Len(bytesOut)
      <4>1. channel[p] \in Seq(Int) /\ bytesOut \in Seq(Int)
        BY <1>1, <1>6
      <4> QED
        BY <4>1
    <3>3. Len(network[p] \o pieces) = Len(network[p]) + Len(pieces)
      BY <1>1
    <3> QED
      BY <1>1, <1>2, <1>6, <2>1, <3>1, <3>2, <3>3
  <2>2. CASE q # p
    BY <1>1, <1>4, <2>2 DEF DispatchInv, ChannelInv
  <2> QED
    BY <2>1, <2>2
<1>9. ASSUME NEW q \in Peers \ apart', NEW i \in DOMAIN network'[q]
      PROVE  \/ network'[q][i] = ForeignPacket
             \/ channel'[q][i] = fragmentChannel'[Here]
  <2>1. q \in Peers \ apart /\ Agrees(q)
    BY ApartGrows DEF DispatchInv, ChannelInv
  <2>2. /\ network[q] \in Seq(PacketType) /\ channel[q] \in Seq(Int)
        /\ Len(channel[q]) = Len(network[q])
    BY <1>1 DEF DispatchInv, ChannelInv
  <2>3. CASE i \in DOMAIN network[q]
    <3>1. network'[q][i] = network[q][i] /\ channel'[q][i] = channel[q][i]
      BY <1>1, <1>4, <1>6, <2>2, <2>3
    <3> QED
      BY <2>1, <2>3, <3>1 DEF DispatchInv, ChannelInv
  <2>4. CASE i \notin DOMAIN network[q]
    <3>1. q = p
      BY <1>1, <2>4
    <3>2. i - Len(network[p]) \in 1..Len(pieces)
      BY <1>1, <1>2, <2>4, <3>1
    <3>3. network'[q][i] = pieces[i - Len(network[p])]
      BY <1>1, <1>2, <2>4, <3>1, <3>2
    <3>4. channel'[p] = channel[p] \o bytesOut
      BY <1>1, <1>4
    <3>5. channel'[q][i] = OnWire(ch)
      BY <1>1, <1>6, <3>1, <3>2, <3>4
    <3>6. ch = fragmentChannel[p] => OnWire(ch) = fragmentChannel[Here]
      <4>1. \A c \in 0..255 : OnWire(c) = c
        BY DEF OnWire
      <4> QED
        BY <2>1, <3>1, <4>1 DEF Agrees
    <3> QED
      BY <3>2, <3>3, <3>5, <3>6
  <2> QED
    BY <2>3, <2>4
<1>10. ChannelInv'
  BY <1>7, <1>8, <1>9, ApartGrows DEF DispatchInv, ChannelInv
<1>11. HalvesNeverSurface'
  BY ApartGrows DEF DispatchInv, HalvesNeverSurface
<1> QED
  BY <1>10, <1>11 DEF DispatchInv

LEMMA SendMessageInv ==
  ASSUME DispatchInv, NEW p \in Peers, SendMessage(p),
         apart' = apart \cup {r \in Peers : ~Agrees(r)'}
  PROVE  DispatchInv'
<1>0. PICK size \in Sizes : \E n \in 0..Total(size) : SendLarge(p, size, n)
  BY DEF SendMessage, Send
<1>1. PICK n \in 0..Total(size) : SendLarge(p, size, n)
  BY <1>0
<1>2. ReassemblyInv'
  BY <1>1, SendLargeInv DEF DispatchInv
<1>3. fragmentChannel[p] \in Int
  BY DEF DispatchInv, ChannelInv
<1>4. network \in [Peers -> Seq(PacketType)]
  BY DEF DispatchInv, ReassemblyInv, NetworkInv
<1>5. /\ size \in Nat /\ Len(sent[p]) + 1 \in Nat
      /\ nextMessageId[p] \in 1..MaxMessageId
  BY ReassemblyAssumption DEF DispatchInv, ReassemblyInv, SendersInv
<1>6. \E pieces \in Seq(PacketType) :
        network' = [network EXCEPT ![p] = @ \o pieces]
  <2>1. CASE Total(size) > MaxFragments
    <3>1. network' = [network EXCEPT ![p] = @ \o << >>]
      BY <1>1, <1>4, <2>1 DEF SendLarge
    <3>2. << >> \in Seq(PacketType)
      OBVIOUS
    <3> QED
      BY <3>1, <3>2
  <2>2. CASE ~(Total(size) > MaxFragments)
    <3> DEFINE pieces == SubSeq(Fragments(p, Len(sent[p]) + 1,
                                          nextMessageId[p], size), 1, n)
    <3>1. network' = [network EXCEPT ![p] = @ \o pieces]
      BY <1>1, <2>2 DEF SendLarge
    <3>2. pieces \in Seq(PacketType)
      BY <1>5, FragmentsAreSequence
    <3> QED
      BY <3>1, <3>2
  <2> QED
    BY <2>1, <2>2
<1> QED
  BY <1>2, <1>3, <1>6, SentByInv DEF SendMessage

LEMMA SendPacketInv ==
  ASSUME DispatchInv, NEW p \in Peers, NEW ch \in Channels \cup {0},
         SendPacket(p, ch), apart' = apart \cup {r \in Peers : ~Agrees(r)'}
  PROVE  DispatchInv'
<1>1. ReassemblyInv'
  BY FaultInv DEF DispatchInv, SendPacket
<1>2. ch \in Int
  BY DispatchAssumption
<1>3. network \in [Peers -> Seq(PacketType)]
  BY DEF DispatchInv, ReassemblyInv, NetworkInv
<1>4. /\ <<ForeignPacket>> \in Seq(PacketType)
      /\ \A n \in DOMAIN <<ForeignPacket>> :
           <<ForeignPacket>>[n] = ForeignPacket
  BY ForeignIsPacket
<1>5. network' = [network EXCEPT ![p] = @ \o <<ForeignPacket>>]
  <2>1. network' = [network EXCEPT ![p] = Append(@, ForeignPacket)]
    BY DEF SendPacket, SendForeign
  <2>2. Append(network[p], ForeignPacket) = network[p] \o <<ForeignPacket>>
    BY <1>3, ForeignIsPacket
  <2> QED
    BY <2>1, <2>2
<1> QED
  BY <1>1, <1>2, <1>4, <1>5, SentByInv DEF SendPacket

\* A packet off the channel this process expects is the application's own.
LEMMA ReceivePacketInv ==
  ASSUME DispatchInv, NEW p \in Peers, ReceivePacket(p),
         apart' = apart \cup {r \in Peers : ~Agrees(r)'}
  PROVE  DispatchInv'
<1>1. PICK i \in Deliverable(p) :
        /\ DispatchPacket(p, network[p][i], channel[p][i])
        /\ network' = [network EXCEPT ![p] = Without(@, i)]
        /\ channel' = [channel EXCEPT ![p] = Without(@, i)]
        /\ UNCHANGED <<nextMessageId, sent, faults, fragmentChannel>>
  BY DEF ReceivePacket
<1>2. i \in DOMAIN network[p]
  BY DEF Deliverable
<1>3. /\ network \in [Peers -> Seq(PacketType)]
      /\ nextMessageId \in [Peers -> 1..MaxMessageId]
      /\ channel \in [Peers -> Seq(Int)]
      /\ surfaced \in [Peers -> Seq(PacketType)]
      /\ \A q \in Peers : Len(channel[q]) = Len(network[q])
  BY DEF DispatchInv, ReassemblyInv, NetworkInv, SendersInv, ChannelInv
<1>4. /\ network[p] \in Seq(PacketType) /\ channel[p] \in Seq(Int)
      /\ i \in DOMAIN channel[p]
  BY <1>2, <1>3
<1>5. /\ Without(network[p], i) \in Seq(PacketType)
      /\ Len(Without(network[p], i)) = Len(network[p]) - 1
      /\ \A j \in 1..(Len(network[p]) - 1) :
           Without(network[p], i)[j] =
             IF j < i THEN network[p][j] ELSE network[p][j + 1]
  BY <1>2, <1>4, WithoutIndex
<1>6. /\ Without(channel[p], i) \in Seq(Int)
      /\ Len(Without(channel[p], i)) = Len(channel[p]) - 1
      /\ \A j \in 1..(Len(channel[p]) - 1) :
           Without(channel[p], i)[j] =
             IF j < i THEN channel[p][j] ELSE channel[p][j + 1]
  BY <1>4, WithoutIndex
<1>7. /\ network'[p] = Without(network[p], i)
      /\ channel'[p] = Without(channel[p], i)
      /\ \A q \in Peers \ {p} :
           network'[q] = network[q] /\ channel'[q] = channel[q]
  BY <1>1, <1>3
<1>8. /\ network' \in [Peers -> Seq(PacketType)]
      /\ channel' \in [Peers -> Seq(Int)]
  BY <1>1, <1>3, <1>5, <1>6
<1>9. ASSUME NEW q \in Peers, NEW j \in DOMAIN network'[q]
      PROVE  \E l \in DOMAIN network[q] :
               network'[q][j] = network[q][l] /\ channel'[q][j] = channel[q][l]
  <2>1. CASE q # p
    BY <1>7, <2>1
  <2>2. CASE q = p
    <3>1. j \in 1..(Len(network[p]) - 1) /\ Len(channel[p]) = Len(network[p])
      BY <1>3, <1>4, <1>5, <1>7, <2>2
    <3>2. /\ network'[p][j] =
               IF j < i THEN network[p][j] ELSE network[p][j + 1]
          /\ channel'[p][j] =
               IF j < i THEN channel[p][j] ELSE channel[p][j + 1]
      BY <1>5, <1>6, <1>7, <3>1
    <3>3. j \in DOMAIN network[p] /\ j + 1 \in DOMAIN network[p]
      BY <1>4, <3>1
    <3> QED
      BY <2>2, <3>2, <3>3
  <2> QED
    BY <2>1, <2>2
<1>10. \A q \in Peers : Len(channel'[q]) = Len(network'[q])
  BY <1>3, <1>5, <1>6, <1>7
<1>11. \A q \in Peers \ apart' : \A j \in DOMAIN network'[q] :
         \/ network'[q][j] = ForeignPacket
         \/ channel'[q][j] = fragmentChannel'[Here]
  <2> SUFFICES ASSUME NEW q \in Peers \ apart', NEW j \in DOMAIN network'[q]
               PROVE  \/ network'[q][j] = ForeignPacket
                      \/ channel'[q][j] = fragmentChannel'[Here]
    OBVIOUS
  <2>1. q \in Peers \ apart
    BY ApartGrows
  <2>2. PICK l \in DOMAIN network[q] :
          network'[q][j] = network[q][l] /\ channel'[q][j] = channel[q][l]
    BY <1>9, <2>1
  <2>3. \/ network[q][l] = ForeignPacket
        \/ channel[q][l] = fragmentChannel[Here]
    BY <2>1, <2>2 DEF DispatchInv, ChannelInv
  <2> QED
    BY <1>1, <2>2, <2>3
<1>12. fragmentChannel' \in [Peers \cup {Here} -> Int]
  BY <1>1 DEF DispatchInv, ChannelInv
<1>13. surfaced' \in [Peers -> Seq(PacketType)] => ChannelInv'
  BY <1>8, <1>10, <1>11, <1>12, ApartGrows DEF ChannelInv
<1>14. CASE /\ channel[p][i] = fragmentChannel[Here]
            /\ Accept(p, network[p][i]) /\ UNCHANGED surfaced
  <2>1. Receive(p)
    BY <1>1, <1>14 DEF Receive
  <2>2. ReassemblyInv'
    BY <2>1, ReceiveInv DEF DispatchInv
  <2>3. HalvesNeverSurface'
    BY <1>14, ApartGrows DEF DispatchInv, HalvesNeverSurface
  <2> QED
    BY <1>3, <1>13, <1>14, <2>2, <2>3 DEF DispatchInv
<1>15. CASE /\ channel[p][i] # fragmentChannel[Here]
            /\ Emit(p, network[p][i]) /\ UNCHANGED receiverVars
  <2>1. ReassemblyInv'
    BY <1>1, <1>3, <1>8, <1>9, <1>15, NetworkStepInv DEF DispatchInv
  <2>2. network[p][i] \in PacketType
    BY <1>2, <1>4
  <2>3. surfaced' = [surfaced EXCEPT ![p] = Append(@, network[p][i])]
    BY <1>15 DEF Emit
  <2>4. surfaced' \in [Peers -> Seq(PacketType)]
    BY <1>3, <2>2, <2>3
  <2>5. p \notin apart => network[p][i] = ForeignPacket
    BY <1>2, <1>15 DEF DispatchInv, ChannelInv
  <2>6. \A q \in Peers : \A n \in DOMAIN surfaced'[q] :
          \/ n \in DOMAIN surfaced[q] /\ surfaced'[q][n] = surfaced[q][n]
          \/ q = p /\ surfaced'[q][n] = network[p][i]
    BY <1>3, <2>2, <2>3
  <2>7. HalvesNeverSurface'
    BY <2>5, <2>6, ApartGrows DEF DispatchInv, HalvesNeverSurface
  <2> QED
    BY <1>13, <2>1, <2>4, <2>7 DEF DispatchInv
<1> QED
  BY <1>1, <1>14, <1>15 DEF DispatchPacket

LEMMA DispatchNextInv ==
  ASSUME DispatchInv, [DispatchNext]_dispatchVars PROVE DispatchInv'
<1>1. CASE DispatchNext
  BY <1>1, ConfigureInv, SendMessageInv, SendPacketInv, ReceivePacketInv,
     WaitInv DEF DispatchNext
<1>2. CASE UNCHANGED dispatchVars
  <2>1. UNCHANGED vars
    BY <1>2 DEF dispatchVars
  <2>2. ReassemblyInv'
    BY <2>1, NextInv DEF DispatchInv
  <2>3. ChannelInv'
    BY <1>2 DEF DispatchInv, ChannelInv, Agrees, dispatchVars, vars
  <2>4. HalvesNeverSurface'
    BY <1>2 DEF DispatchInv, HalvesNeverSurface, dispatchVars
  <2> QED
    BY <2>2, <2>3, <2>4 DEF DispatchInv
<1> QED
  BY <1>1, <1>2

-----------------------------------------------------------------------------

\* index.js:490 and p2p.cc:124: whichever channels applications configure
\* and send on, and whenever, a fragment surfaces as 'p2p:packet' only when its
\* sender and this process were at some time configured for different channels,
\* or for one that does not fit in the byte it travels in.
THEOREM HalvesNeverSurfaceHolds == DispatchSpec => []HalvesNeverSurface
<1>1. DispatchInv => HalvesNeverSurface
  BY DEF DispatchInv
<1> QED
  BY <1>1, DispatchInitInv, DispatchNextInv, PTL DEF DispatchSpec

\* Processes that are configured for other channels while fragments are under way,
\* so that a part of a message surfaces and the rest reaches the Reassembler,
\* never make it deliver a message of other slices than those of one id and one
\* total.  The reserved channel belongs to sendLarge (README.md:264, 288): what an
\* application sends there itself is something that accept() refuses.  A packet of
\* its own that reads as a fragment is outside the model.
THEOREM DispatchKeepsSlicesGenuine == DispatchSpec => []WrongOnlyIfIdReused
<1>1. DispatchInv => WrongOnlyIfIdReused
  BY DEF DispatchInv, ReassemblyInv, DeliveredInv, GenuineMessage,
         WrongOnlyIfIdReused
<1> QED
  BY <1>1, DispatchInitInv, DispatchNextInv, PTL DEF DispatchSpec

-----------------------------------------------------------------------------
(* The table, behind #dispatch.                                            *)

\* To the Reassembler a step of this module is one of its own, or nothing.
LEMMA DispatchNextAccounts ==
  ASSUME DispatchInv, AccountInv, [DispatchNext]_dispatchVars
  PROVE  AccountInv'
<1>0. ReassemblyInv
  BY DEF DispatchInv
<1>1. ASSUME UNCHANGED <<sent, pending, bytes, faults>> PROVE AccountInv'
  BY <1>1, AccountParts, TableUnchanged
<1>2. CASE UNCHANGED dispatchVars
  BY <1>1, <1>2 DEF dispatchVars, vars
<1>3. ASSUME NEW q \in Peers \cup {Here}, NEW ch \in Channels, Configure(q, ch)
      PROVE  AccountInv'
  <2>1. Fault /\ UNCHANGED <<sent, pending, bytes>>
    BY <1>3 DEF Configure, receiverVars
  <2> QED
    BY <1>0, <2>1, FaultAccounts, TableUnchanged
<1>4. ASSUME NEW p \in Peers, SendMessage(p) PROVE AccountInv'
  BY <1>0, <1>4, SendLargeAccounts DEF SendMessage, Send
<1>5. ASSUME NEW p \in Peers, NEW ch \in Channels \cup {0}, SendPacket(p, ch)
      PROVE  AccountInv'
  <2>1. Fault /\ UNCHANGED <<sent, pending, bytes>>
    BY <1>5 DEF SendPacket, SendForeign, receiverVars
  <2> QED
    BY <1>0, <2>1, FaultAccounts, TableUnchanged
<1>6. ASSUME NEW p \in Peers, ReceivePacket(p) PROVE AccountInv'
  <2>1. PICK i \in Deliverable(p) :
          /\ DispatchPacket(p, network[p][i], channel[p][i])
          /\ network' = [network EXCEPT ![p] = Without(@, i)]
          /\ UNCHANGED <<nextMessageId, sent, faults>>
    BY <1>6 DEF ReceivePacket
  <2>2. CASE Accept(p, network[p][i])
    <3>1. Receive(p)
      BY <2>1, <2>2 DEF Receive
    <3> QED
      BY <1>0, <3>1, ReceiveAccounts
  <2>3. CASE UNCHANGED receiverVars
    BY <1>1, <2>1, <2>3 DEF receiverVars
  <2> QED
    BY <2>1, <2>2, <2>3 DEF DispatchPacket
<1>7. CASE WaitBetweenPackets
  BY <1>0, <1>7, TimePassesAccounts DEF WaitBetweenPackets
<1> QED
  BY <1>2, <1>3, <1>4, <1>5, <1>6, <1>7 DEF DispatchNext

\* Packets that another configuration sends to the wrong side of #dispatch, in the
\* middle of a message too, never bring the table out of balance or over its
\* budget; the application's own packets on the fragment channel are, as above,
\* ones that accept() refuses.
THEOREM DispatchKeepsAccounts == DispatchSpec => [](ByteAccounting /\ WithinBudget)
<1>1. DispatchInit => DispatchInv /\ AccountInv
  BY DispatchInitInv, InitAccounts DEF DispatchInit
<1>2. DispatchInv /\ AccountInv /\ [DispatchNext]_dispatchVars
        => (DispatchInv /\ AccountInv)'
  BY DispatchNextInv, DispatchNextAccounts
<1>3. DispatchInv /\ AccountInv => ByteAccounting /\ WithinBudget
  BY InvImpliesAccounting DEF DispatchInv
<1> QED
  BY <1>1, <1>2, <1>3, PTL DEF DispatchSpec

-----------------------------------------------------------------------------
(* The channel, behind #dispatch.                                          *)

\* A packet is taken off the wire and not given to the Reassembler, or a
\* process is configured: at most, there is less on the wire.
LessOnWire ==
  /\ UNCHANGED <<nextMessageId, sent, receiverVars>>
  /\ network' \in [Peers -> Seq(PacketType)]
  /\ \A p \in Peers : PartOf(network'[p], network[p])

LEMMA DispatchStepOrLess ==
  ASSUME DispatchInv, [DispatchNext]_dispatchVars
  PROVE  \/ LessOnWire \/ TimePasses
         \/ \E p \in Peers : Send(p) \/ Receive(p) \/ SendForeign(p)
<1>1. network \in [Peers -> Seq(PacketType)]
  BY DEF DispatchInv, ReassemblyInv, NetworkInv
<1>2. ASSUME UNCHANGED <<nextMessageId, sent, network, receiverVars>>
      PROVE  LessOnWire
  BY <1>1, <1>2, PartOfItself DEF LessOnWire
<1>3. CASE UNCHANGED dispatchVars
  BY <1>2, <1>3 DEF dispatchVars, vars, receiverVars
<1>4. ASSUME NEW q \in Peers \cup {Here}, NEW ch \in Channels, Configure(q, ch)
      PROVE  LessOnWire
  BY <1>2, <1>4 DEF Configure
<1>5. ASSUME NEW p \in Peers, ReceivePacket(p)
      PROVE  LessOnWire \/ Receive(p)
  <2>1. PICK i \in Deliverable(p) :
          /\ DispatchPacket(p, network[p][i], channel[p][i])
          /\ network' = [network EXCEPT ![p] = Without(@, i)]
          /\ UNCHANGED <<nextMessageId, sent, faults>>
    BY <1>5 DEF ReceivePacket
  <2>2. CASE Accept(p, network[p][i])
    BY <2>1, <2>2 DEF Receive
  <2>3. CASE UNCHANGED receiverVars
    <3>1. /\ Without(network[p], i) \in Seq(PacketType)
          /\ PartOf(Without(network[p], i), network[p])
      BY <1>1, RestIsPart DEF Deliverable
    <3>2. /\ network' \in [Peers -> Seq(PacketType)]
          /\ network'[p] = Without(network[p], i)
          /\ \A q \in Peers \ {p} : network'[q] = network[q]
      BY <1>1, <2>1, <3>1
    <3>3. \A q \in Peers : PartOf(network'[q], network[q])
      BY <1>1, <3>1, <3>2, PartOfItself
    <3> QED
      BY <2>1, <2>3, <3>2, <3>3 DEF LessOnWire
  <2> QED
    BY <2>1, <2>2, <2>3 DEF DispatchPacket
<1> QED
  BY <1>3, <1>4, <1>5 DEF DispatchNext, SendMessage, SendPacket,
                          WaitBetweenPackets

\* A slice stays in one place.
LEMMA DispatchPlaceInv ==
  ASSUME DispatchInv, IdsUnique, OnePlaceInv, [DispatchNext]_dispatchVars,
         Reliability # "unreliableUnordered"
  PROVE  OnePlaceInv'
<1>1. ReassemblyInv
  BY DEF DispatchInv
<1>2. CASE LessOnWire
  BY <1>1, <1>2, LessInv DEF LessOnWire, receiverVars
<1>3. ASSUME NEW p \in Peers, Send(p) \/ Receive(p) \/ SendForeign(p)
      PROVE  OnePlaceInv'
  BY <1>1, <1>3, NextPlaceInv DEF Next
<1>4. CASE TimePasses
  BY <1>1, <1>4, NextPlaceInv DEF Next
<1> QED
  BY <1>2, <1>3, <1>4, DispatchStepOrLess

LEMMA DispatchChannelStep ==
  ASSUME DispatchInv, OnePlaceInv, Numbered, Numbered',
         [DispatchNext]_dispatchVars
  PROVE  [Channel!Next]_<<Sent, Numbers>>
<1>1. ReassemblyInv
  BY DEF DispatchInv
<1>2. CASE LessOnWire
  <2>1. UNCHANGED sent /\ UNCHANGED delivered
    BY <1>2 DEF LessOnWire, receiverVars
  <2> QED
    BY <2>1, NumbersStay DEF Sent
<1>3. ASSUME NEW p \in Peers, Send(p) \/ Receive(p) \/ SendForeign(p)
      PROVE  [Channel!Next]_<<Sent, Numbers>>
  BY <1>1, <1>3, ChannelStep DEF Next
<1>4. CASE TimePasses
  BY <1>1, <1>4, ChannelStep DEF Next
<1> QED
  BY <1>2, <1>3, <1>4, DispatchStepOrLess

\* Nobody restarts here, so the k-th message of a peer has the id k.
LEMMA DispatchIds ==
  ASSUME DispatchInv, IdsInv, [DispatchNext]_dispatchVars,
         MaxSends <= MaxMessageId,
         \A size \in Sizes : Total(size) <= MaxFragments
  PROVE  IdsInv'
<1>1. ReassemblyInv
  BY DEF DispatchInv
<1>2. CASE UNCHANGED <<sent, nextMessageId>>
  BY <1>2 DEF IdsInv
<1>3. ASSUME NEW p \in Peers, Send(p) PROVE IdsInv'
  BY <1>1, <1>3, SendLargeIds DEF Send
<1> QED
  BY <1>2, <1>3, DispatchStepOrLess DEF LessOnWire, Receive, SendForeign,
                                        TimePasses

\* However channels are configured while fragments are under way, and whatever
\* surfaces because of it, sendLarge and 'p2p:message' remain the channel of
\* module MessageChannel: messages are lost by it, never repeated, reordered
\* or mixed (index.js:490 and 592).
THEOREM DispatchImplementsChannel ==
  ASSUME Reliability # "unreliableUnordered", MaxSends <= MaxMessageId,
         \A size \in Sizes : Total(size) <= MaxFragments
  PROVE  DispatchSpec => ImplementsChannel
<1>1. DispatchInit => DispatchInv /\ IdsInv /\ OnePlaceInv /\ Channel!Init
  <2> SUFFICES ASSUME DispatchInit
               PROVE  DispatchInv /\ IdsInv /\ OnePlaceInv /\ Channel!Init
    OBVIOUS
  <2>1. IdsInv
    BY ReassemblyAssumption DEF DispatchInit, Init, IdsInv
  <2>2. OnePlaceInv /\ Channel!Init
    BY OnePlaceInit DEF DispatchInit, Init, Channel!Init
  <2> QED
    BY <2>1, <2>2, DispatchInitInv
<1>2. IdsInv => IdsUnique
  BY DEF IdsInv, IdsUnique
<1>3. DispatchInv /\ IdsInv /\ [DispatchNext]_dispatchVars => DispatchInv' /\ IdsInv'
  BY DispatchNextInv, DispatchIds
<1>4. DispatchInv /\ IdsInv => Numbered
  BY <1>2, MessagesNumbered DEF DispatchInv
<1>5. DispatchInv /\ IdsInv /\ OnePlaceInv /\ [DispatchNext]_dispatchVars
        => OnePlaceInv'
  BY <1>2, DispatchPlaceInv
<1>6. DispatchInv /\ OnePlaceInv /\ Numbered /\ Numbered'
        /\ [DispatchNext]_dispatchVars
        => [Channel!Next]_<<[p \in Peers |-> Len(sent[p])],
                            [p \in Peers |->
                               [n \in DOMAIN delivered[p] |->
                                  MessageOf(p, delivered[p][n])]]>>
  BY DispatchChannelStep DEF Sent, Numbers
<1> QED
  BY <1>1, <1>3, <1>4, <1>5, <1>6, PTL
     DEF DispatchSpec, ImplementsChannel, Channel!Spec
=============================================================================
