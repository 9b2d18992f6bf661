------------------------------ MODULE Dispatch ------------------------------
(***************************************************************************)
(* The way of a packet from p2p.send of one process to an event of         *)
(* another: the fragment channel that each process is configured with, the *)
(* byte that p2p.cc makes of a channel number, and EosClient.#dispatch,    *)
(* which gives a packet of the fragment channel to the Reassembler and     *)
(* emits every other one as 'p2p:packet'.  Time passes between packets.    *)
(* The transport loses and repeats nothing and nobody restarts; module     *)
(* Reassembly has those.                                                   *)
(***************************************************************************)
EXTENDS Reassembly

CONSTANTS
  Here,     \* the process that receives
  Channels  \* the integers an application may give as a channel

ASSUME DispatchAssumption ==
  /\ Here \notin Peers
  /\ Channels \subseteq Int

VARIABLES
  fragmentChannel,  \* EosClient.#fragmentChannel of each process
  channel,          \* the channel of each packet of `network`, in its order
  surfaced,         \* history: the packets emitted as 'p2p:packet', by sender
  apart             \* history: the senders that were ever configured for
                    \* another channel than this process expects

dispatchVars == <<vars, fragmentChannel, channel, surfaced, apart>>

DEFAULT_FRAGMENT_CHANNEL == 255

\* Mutation: the byte is read as a signed one.
OnWire_Signed(ch) == ((ch + 128) % 256) - 128

\* The channel of EOS_P2P_SendPacketOptions is a uint8_t.
OnWire(ch) == ch % 256

\* The sender and this process are configured for one channel, of one byte.
Agrees(p) ==
  fragmentChannel[p] = fragmentChannel[Here] /\ fragmentChannel[Here] \in 0..255

\* Each process has its default, or was configured before it sent anything.
DispatchInit ==
  /\ Init
  /\ fragmentChannel \in
       [Peers \cup {Here} -> Channels \cup {DEFAULT_FRAGMENT_CHANNEL}]
  /\ channel = [p \in Peers |-> << >>]
  /\ surfaced = [p \in Peers |-> << >>]
  /\ apart = {p \in Peers : ~Agrees(p)}

-----------------------------------------------------------------------------
\* configure() with another fragmentChannel, in any process.  Packets under way and
\* partial messages stay as they are.
Configure(q, ch) ==
  /\ Fault
  /\ fragmentChannel' = [fragmentChannel EXCEPT ![q] = ch]
  /\ UNCHANGED <<nextMessageId, sent, network, receiverVars, channel, surfaced>>

\* Whatever p has just put on the network went by channel ch.
SentBy(p, ch) ==
  channel' = [channel EXCEPT ![p] =
    @ \o [n \in 1..(Len(network'[p]) - Len(network[p])) |-> OnWire(ch)]]

SendMessage(p) ==
  /\ Send(p)
  /\ SentBy(p, fragmentChannel[p])
  /\ UNCHANGED <<fragmentChannel, surfaced>>

\* A packet of the application's own, on channel 0 or one it chooses: on the
\* fragment channel, one that accept() refuses.
SendPacket(p, ch) ==
  /\ SendForeign(p)
  /\ SentBy(p, ch)
  /\ UNCHANGED <<fragmentChannel, surfaced>>

Emit(p, packet) == surfaced' = [surfaced EXCEPT ![p] = Append(@, packet)]

\* EosClient.#dispatch of a 'p2p:packet'.
DispatchPacket(p, packet, ch) ==
  \/ ch = fragmentChannel[Here] /\ Accept(p, packet) /\ UNCHANGED surfaced
  \/ ch # fragmentChannel[Here] /\ Emit(p, packet) /\ UNCHANGED receiverVars

ReceivePacket(p) ==
  \E i \in Deliverable(p) :
    /\ DispatchPacket(p, network[p][i], channel[p][i])
    /\ network' = [network EXCEPT ![p] = Without(@, i)]
    /\ channel' = [channel EXCEPT ![p] = Without(@, i)]
    /\ UNCHANGED <<nextMessageId, sent, faults, fragmentChannel>>

WaitBetweenPackets ==
  TimePasses /\ UNCHANGED <<fragmentChannel, channel, surfaced>>

DispatchNext ==
  /\ \/ \E q \in Peers \cup {Here}, ch \in Channels : Configure(q, ch)
     \/ \E p \in Peers : SendMessage(p) \/ ReceivePacket(p)
     \/ \E p \in Peers, ch \in Channels \cup {0} : SendPacket(p, ch)
     \/ WaitBetweenPackets
  /\ apart' = apart \cup {p \in Peers : ~Agrees(p)'}

\* The transport delivers, and the receiver's interval drains what it has.
DispatchSpec ==
  /\ DispatchInit /\ [][DispatchNext]_dispatchVars
  /\ \A p \in Peers : WF_dispatchVars(ReceivePacket(p)
                        /\ apart' = apart \cup {q \in Peers : ~Agrees(q)'})

-----------------------------------------------------------------------------
(* Properties.                                                             *)

\* README.md:288-289, "never surface as p2p:packet": as long as both ends were
\* configured for one channel, and its number fits in the byte it travels in,
\* no half of a message is emitted to the application.
HalvesNeverSurface ==
  \A p \in Peers \ apart : \A n \in DOMAIN surfaced[p] :
    surfaced[p][n] = ForeignPacket

\* The partial message of what p sent as its k-th has waited longer than the TTL
\* for a fragment.
TimedOut(p, k) ==
  \E e \in pending :
    /\ e.peer = p /\ e.age > TtlMs
    /\ \E i \in Filled(e.chunks) : e.chunks[i].of = k

\* README.md:245, "any size": a message all of whose fragments were sent arrives
\* over a transport that loses nothing, however late its fragments come, unless
\* one of them came more than the TTL after the one before it; as long as the two
\* ends' channels never part, and the budget holds what is under way.
EventuallyDelivered ==
  \A p \in Peers : \A k \in 1..MaxSends :
    <>(k \in DOMAIN sent[p] /\ sent[p][k].whole)
      => <>(\/ p \in apart
            \/ TimedOut(p, k)
            \/ \E n \in DOMAIN delivered[p] : MessageOf(p, delivered[p][n]) = k)
=============================================================================
