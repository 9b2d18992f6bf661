-------------------------------- MODULE P2P --------------------------------
(***************************************************************************)
(* p2p.cc on the platform of module Platform: configure, the connection    *)
(* requests, and the packets that DrainPackets takes from the SDK's queue  *)
(* on every tick.                                                          *)
(*                                                                         *)
(* Packets are counted, not told apart: what #dispatch does with one, and  *)
(* the fragmentChannel option it looks at, is module Reassembly's subject. *)
(***************************************************************************)
EXTENDS Platform

CONSTANTS
  Peers,                 \* remote users
  Sockets,               \* socket names
  Absent,                \* an option that is not given, or an empty name
  AutoAccepts,           \* the options configure is called with
  Caps,
  MaxQueue               \* bound: packets in the SDK's queue of a user

\* Packets a tick takes when configure does not say.
DefaultCap == 1024

ASSUME P2PAssumption ==
  /\ Absent \notin Sockets
  /\ Absent \notin BOOLEAN
  /\ Absent \notin Nat
  /\ AutoAccepts \subseteq BOOLEAN \cup {Absent}
  /\ Caps \subseteq Nat \cup {Absent}
  /\ MaxQueue \in Nat

VARIABLES
  g_socket_name,          \* p2p.cc
  g_auto_accept,
  g_max_packets_per_tick,
  scope,                  \* the user and socket the notifications are bound to
  drained,                \* the counter of the loop of DrainPackets, 0 outside
  requests,               \* connection requests the SDK has not reported
  connections,            \* connections that are accepted
  queue,                  \* how many packets the SDK holds for each user
  asked,                  \* history: the autoAccept of the last configure
  retried                 \* history: init() was tried again after shutdown

configVars == <<g_socket_name, g_auto_accept, g_max_packets_per_tick,
                scope, asked>>
sdkVars == <<requests, connections, queue>>
p2pVars == <<configVars, sdkVars, drained, retried>>
vars == <<platformVars, p2pVars>>

Links == Peers \X Users \X Sockets

P2PTypeOK ==
  /\ TypeOK
  /\ g_socket_name \in Sockets \cup {Absent}
  /\ g_auto_accept \in BOOLEAN
  /\ g_max_packets_per_tick \in Nat
  /\ scope \in (Users \cup {Nobody}) \X (Sockets \cup {Absent})
  /\ drained \in Nat
  /\ requests \subseteq Links
  /\ connections \subseteq Links
  /\ queue \in [Users -> Nat]
  /\ retried \in BOOLEAN

P2PInit ==
  /\ PlatformInit
  /\ g_socket_name = Absent
  /\ g_auto_accept = TRUE
  /\ g_max_packets_per_tick = DefaultCap
  /\ scope = <<Nobody, Absent>>
  /\ asked = Absent
  /\ requests = {}
  /\ connections = {}
  /\ queue = [u \in Users |-> 0]
  /\ drained = 0
  /\ retried = FALSE

-----------------------------------------------------------------------------
(* configure, and watchConnections after it.                               *)

\* Mutation: an option is stored without a look at whether it was given.
Given_Unchecked(option, value) == option

\* An option that is not given leaves the value of an earlier call.
Given(option, value) == IF option = Absent THEN value ELSE option

\* The notifications are bound to the user and the socket of the first call
\* that adds them; later calls find them there.
Configure(u, socket, auto, cap) ==
  /\ ClientConfigure(u)
  /\ g_socket_name' = socket
  /\ g_auto_accept' = Given(auto, g_auto_accept)
  /\ g_max_packets_per_tick' = Given(cap, g_max_packets_per_tick)
  /\ scope' = IF "p2p" \notin g_notification /\ "p2p" \in g_notification'
              THEN <<u, socket>> ELSE scope
  /\ asked' = auto
  /\ UNCHANGED <<sdkVars, drained, retried>>

-----------------------------------------------------------------------------
(* Connections.                                                            *)

\* A peer's first packet makes the SDK ask whether to accept it.
PeerConnects(link) ==
  /\ platform
  /\ link \notin connections
  /\ requests' = requests \cup {link}
  /\ UNCHANGED <<platformVars, configVars, connections, queue, drained,
                 retried>>

\* The registered notification covers the request.
Heard(link) ==
  /\ "p2p" \in g_notification
  /\ link[2] = scope[1]
  /\ scope[2] \in {Absent, link[3]}

\* Mutation: every request is accepted.
AutoAccepted_Always(link) == connections \cup {link}

\* The request is accepted on the spot; without a sink it is passed over.
AutoAccepted(link) ==
  IF emitter # Nobody /\ g_auto_accept THEN connections \cup {link} ELSE connections

\* Mutation: the listeners are called although an exception is pending.
ReportRequest_AnyTime == listening' = (emitter # Nobody)

\* EmitEvent("p2p:connection-request").
ReportRequest == listening' = CallsListeners

OnConnectionRequest(link) ==
  /\ frame = "tick" /\ NativeRuns
  /\ platform
  /\ link \in requests /\ Heard(link)
  /\ requests' = requests \ {link}
  /\ connections' = AutoAccepted(link)
  /\ ReportRequest
  /\ UNCHANGED <<stateVars, timerVars, g_local_user, g_notification, library,
                 misuse, frame, callVars, exception, configVars, queue, drained,
                 retried>>

\* p2p.acceptConnection.
Accept(link) ==
  /\ JsRuns /\ platform
  /\ connections' = connections \cup {link}
  /\ requests' = requests \ {link}
  /\ UNCHANGED <<platformVars, configVars, queue, drained, retried>>

\* p2p.send: bDisableAutoAcceptConnection is false, so the SDK accepts the
\* connection of a peer that is sent to.
Send(link) == Accept(link)

CloseConnection(link) ==
  /\ JsRuns /\ platform
  /\ connections' = connections \ {link}
  /\ requests' = requests \ {link}
  /\ UNCHANGED <<platformVars, configVars, queue, drained, retried>>

-----------------------------------------------------------------------------
(* Packets.                                                                *)

\* A packet arrives over an accepted connection, at any time.
PacketArrives(u) ==
  /\ platform
  /\ \E link \in connections : link[2] = u
  /\ queue[u] < MaxQueue
  /\ queue' = [queue EXCEPT ![u] = @ + 1]
  /\ UNCHANGED <<platformVars, configVars, requests, connections, drained,
                 retried>>

\* EOS_P2P_GetNextReceivedPacketSize finds a packet.
HasPacket ==
  /\ platform /\ g_local_user # Nobody
  /\ queue[g_local_user] > 0

\* The condition of the loop.
BelowCap == drained < g_max_packets_per_tick

StartDraining == SdkDone /\ UNCHANGED p2pVars

\* Mutation: the packets of a tick are not counted.
Count_Nothing == UNCHANGED drained

Count == drained' = drained + 1

DrainOne ==
  /\ DrainPacket
  /\ BelowCap
  /\ HasPacket
  /\ Count
  /\ queue' = [queue EXCEPT ![g_local_user] = @ - 1]
  /\ UNCHANGED <<configVars, requests, connections, retried>>

\* DrainPackets leaves its loop.
LeavesLoop == drained' = 0 /\ UNCHANGED <<configVars, sdkVars, retried>>

\* Mutation: the loop falls off its end without a word.
DrainedAll_AtTheCap ==
  DrainEnd /\ (BelowCap => ~HasPacket) /\ LeavesLoop

\* EOS_P2P_GetNextReceivedPacketSize finds no packet.
DrainedAll ==
  /\ DrainEnd
  /\ BelowCap
  /\ ~HasPacket
  /\ LeavesLoop

\* It finds one, and EOS_P2P_ReceivePacket fails: the loop ends without a word,
\* and the packet stays where it is.
ReceiveFails ==
  /\ DrainEnd
  /\ BelowCap
  /\ HasPacket
  /\ LeavesLoop

DrainedEnough ==
  /\ DrainCapped
  /\ ~BelowCap
  /\ LeavesLoop

Reported == BacklogReported /\ UNCHANGED p2pVars

DrainStep ==
  DrainOne \/ DrainedAll \/ ReceiveFails \/ DrainedEnough \/ Reported

-----------------------------------------------------------------------------
\* Removed notifications are bound to nothing.
Shutdown(c) ==
  /\ ClientShutdown(c)
  /\ scope' = IF platform THEN <<Nobody, Absent>> ELSE scope
  /\ UNCHANGED <<g_socket_name, g_auto_accept, g_max_packets_per_tick, asked,
                 sdkVars, drained, retried>>

Created == CreateReturns /\ UNCHANGED p2pVars

\* The SDK drops its queues and connections with the platform.
Released ==
  /\ ReleaseReturns
  /\ requests' = {}
  /\ connections' = {}
  /\ queue' = [u \in Users |-> 0]
  /\ UNCHANGED <<configVars, drained, retried>>

PlatformStep ==
  /\ \/ \E c \in Clients : Tick(c)
     \/ SdkEvent \/ SdkLogs \/ ListenerReturns
  /\ UNCHANGED p2pVars

Init(c) ==
  /\ ClientInit(c)
  /\ retried' = (retried \/ shut_down)
  /\ UNCHANGED <<configVars, sdkVars, drained>>

Next ==
  \/ PlatformStep
  \/ \E c \in Clients : Init(c) \/ Shutdown(c)
  \/ Created \/ Released
  \/ \E u \in Users \cup {Nobody}, socket \in Sockets \cup {Absent},
        auto \in AutoAccepts, cap \in Caps :
       Configure(u, socket, auto, cap)
  \/ \E link \in Links :
       \/ PeerConnects(link) \/ OnConnectionRequest(link)
       \/ Accept(link) \/ Send(link) \/ CloseConnection(link)
  \/ \E u \in Users : PacketArrives(u)
  \/ StartDraining
  \/ DrainStep

Spec == P2PInit /\ [][Next]_vars

\* The function of the SDK that is on the stack returns.
SdkReturns == Created \/ Released \/ StartDraining

\* setInterval keeps firing, listeners return, the SDK's functions return
\* however often they call JavaScript, the loop of DrainPackets runs on, and
\* EOS_P2P_ReceivePacket does not refuse for ever a packet whose size it gave.
Fairness ==
  /\ WF_vars((\E c \in Clients : Tick(c)) /\ UNCHANGED p2pVars)
  /\ WF_vars(ListenerReturns /\ UNCHANGED p2pVars)
  /\ SF_vars(SdkReturns)
  /\ WF_vars(DrainStep)
  /\ SF_vars(DrainOne)

FairSpec == Spec /\ Fairness

-----------------------------------------------------------------------------
(* Properties.                                                             *)

\* Packets and connection requests reach JavaScript in no way that module
\* Platform does not know: whatever holds of every behaviour of PlatformSpec
\* holds of this module.
ImplementsPlatform == PlatformSpec

\* Once EOS is shut down no listener is called any more, not even by the tick
\* that was draining packets when a listener shut it down: control comes back to
\* JavaScript only where the listener's own call of the SDK returns to it.  Only
\* an init() that is then tried (and throws) can bring a sink back.
QuietAfterShutdown ==
  [][shut_down /\ ~retried /\ ~listening
       => ~listening' \/ calls' # calls]_vars

\* README.md:253-255: while autoAccept is false, peers are vetted: a connection
\* exists only because the application accepted it or sent to it.
PeersVetted ==
  [][asked = FALSE =>
       \/ JsRuns
       \/ connections' \subseteq connections]_vars

\* p2p.cc:358-359: the cap keeps a flood of packets from "starving the event
\* loop": every tick returns, although packets arrive while it drains them.
TickReturns == (frame # "loop") ~> (frame = "loop")

\* As long as the platform is ticked and there is a sink to report to (one that
\* shutdown() drops inside init() stays away), a packet in the queue of the
\* configured user is taken, however many a tick leaves behind, whatever the cap
\* is (but 0) and however often EOS_P2P_ReceivePacket has refused one before.
QueueMoves ==
  \A u \in Users :
    (g_local_user = u /\ queue[u] > 0 /\ \E c \in Clients : tickTimer[c])
      ~> (drained > 0 \/ g_local_user # u \/ ~platform \/ emitter = Nobody)

LeftBehind ==
  platform /\ g_local_user # Nobody /\ queue[g_local_user] > 0

\* p2p.cc:359-360: a tick that does not keep up says so.  Packets of the
\* configured user stay behind in silence only when EOS_P2P_ReceivePacket has
\* failed (p2p.cc:343-347), the sink is gone, or a listener has thrown in the
\* same tick, wherever listeners configured again.
BacklogReportedToJs ==
  [][frame = "drain" /\ frame' # "drain" /\ LeftBehind'
       => listening' \/ exception \/ emitter = Nobody \/ ReceiveFails]_vars

\* p2p.cc:197-198: "the default is to accept every request on the configured
\* socket": the notification covers the user and the socket configured last.
ConfiguredSocketHeard ==
  \A link \in requests :
    "p2p" \in g_notification /\ link[2] = g_local_user /\ link[3] = g_socket_name
      => Heard(link)
=============================================================================
