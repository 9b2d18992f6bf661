----------------------------- MODULE P2PProofs -----------------------------
(***************************************************************************)
(* Theorems about module P2P.  It implements PlatformSpec, so the theorems *)
(* of PlatformProofs hold of it too; on its own side it keeps its types,   *)
(* vets peers while autoAccept is false, is quiet after a shutdown, and    *)
(* leaves no packets behind in silence.                                    *)
(***************************************************************************)
EXTENDS P2P, PlatformProofs

-----------------------------------------------------------------------------
(* P2P implements the platform.                                            *)

LEMMA P2PStepIsPlatformStep ==
  PlatformInv /\ [Next]_vars => [PlatformNext]_platformVars
<1> SUFFICES ASSUME PlatformInv, [Next]_vars PROVE [PlatformNext]_platformVars
  OBVIOUS
<1>1. CASE PlatformStep
  BY <1>1 DEF PlatformStep, PlatformNext
<1>2. ASSUME NEW c \in Clients, Init(c) \/ Shutdown(c)
      PROVE  [PlatformNext]_platformVars
  BY <1>2 DEF Init, Shutdown, PlatformNext
<1>3. ASSUME NEW u \in Users \cup {Nobody}, NEW socket, NEW auto, NEW cap,
             Configure(u, socket, auto, cap)
      PROVE  [PlatformNext]_platformVars
  BY <1>3 DEF Configure, PlatformNext
<1>4. ASSUME NEW link \in Links,
             \/ PeerConnects(link) \/ Accept(link) \/ Send(link)
             \/ CloseConnection(link)
      PROVE  [PlatformNext]_platformVars
  BY <1>4 DEF PeerConnects, Accept, Send, CloseConnection
<1>5. ASSUME NEW link \in Links, OnConnectionRequest(link)
      PROVE  [PlatformNext]_platformVars
  <2>1. CASE emitter # Nobody /\ ~exception
    BY <1>5, <2>1 DEF OnConnectionRequest, ReportRequest, CallsListeners,
                      Heard, SdkEvent, OnConnectionEvent, PlatformNext
  <2>2. CASE ~(emitter # Nobody /\ ~exception)
    <3>1. listening' = listening
      BY <1>5, <2>2 DEF OnConnectionRequest, ReportRequest, CallsListeners,
                        NativeRuns, PlatformInv, TypeOK
    <3> QED
      BY <1>5, <3>1 DEF OnConnectionRequest, platformVars, stateVars, timerVars,
                        callVars
  <2> QED
    BY <2>1, <2>2
<1>6. ASSUME NEW u \in Users, PacketArrives(u)
      PROVE  [PlatformNext]_platformVars
  BY <1>6 DEF PacketArrives
<1>7. CASE StartDraining
  BY <1>7 DEF StartDraining, PlatformNext
<1>8. CASE DrainStep
  BY <1>8 DEF DrainStep, DrainOne, DrainedAll, ReceiveFails, DrainedEnough,
              Reported, PlatformNext
<1>9. CASE Created \/ Released
  BY <1>9 DEF Created, Released, PlatformNext
<1>10. CASE UNCHANGED vars
  BY <1>10 DEF vars
<1> QED
  BY <1>1, <1>2, <1>3, <1>4, <1>5, <1>6, <1>7, <1>8, <1>9, <1>10 DEF Next

\* Packets and connection requests call JavaScript only as module Platform
\* allows: every behaviour of P2P is one of PlatformSpec.
THEOREM P2PImplementsPlatform == Spec => ImplementsPlatform
<1>1. P2PInit => PlatformInit
  BY DEF P2PInit
<1>2. P2PInit => PlatformInv
  BY <1>1, PlatformInitInv
<1>3. PlatformInv /\ [Next]_vars => PlatformInv'
  BY P2PStepIsPlatformStep, PlatformNextInv
<1> QED
  BY <1>1, <1>2, <1>3, P2PStepIsPlatformStep, PTL
     DEF Spec, ImplementsPlatform, PlatformSpec

\* What PlatformSpec promises of the SDK's calls holds with the packets and the
\* connections of p2p.cc: EOS_Initialize in every behaviour, ticking and releasing
\* until a log listener calls back into the SDK inside EOS_Platform_Create or
\* EOS_Platform_Release.
THEOREM P2PKeepsSdkContract == Spec => []SdkContract
  BY P2PImplementsPlatform, SdkContractHolds, PTL DEF ImplementsPlatform

-----------------------------------------------------------------------------
(* Types.                                                                  *)

OwnTypeOK ==
  /\ g_socket_name \in Sockets \cup {Absent}
  /\ g_auto_accept \in BOOLEAN
  /\ g_max_packets_per_tick \in Nat
  /\ scope \in (Users \cup {Nobody}) \X (Sockets \cup {Absent})
  /\ drained \in Nat
  /\ requests \subseteq Links
  /\ connections \subseteq Links
  /\ queue \in [Users -> Nat]
  /\ retried \in BOOLEAN

Vetting == asked = FALSE => g_auto_accept = FALSE

P2PInv == PlatformInv /\ OwnTypeOK /\ Vetting

LEMMA P2PInitInv == P2PInit => P2PInv
<1> SUFFICES ASSUME P2PInit PROVE P2PInv
  OBVIOUS
<1>1. PlatformInv
  BY PlatformInitInv DEF P2PInit
<1>2. OwnTypeOK
  <2>1. scope \in (Users \cup {Nobody}) \X (Sockets \cup {Absent})
    BY DEF P2PInit
  <2>2. queue \in [Users -> Nat]
    BY DEF P2PInit
  <2>3. /\ g_auto_accept \in BOOLEAN /\ retried \in BOOLEAN
          BY DEF P2PInit
  <2>4. /\ g_socket_name \in Sockets \cup {Absent}
        /\ requests \subseteq Links /\ connections \subseteq Links
    BY DEF P2PInit
  <2>5. /\ g_max_packets_per_tick \in Nat /\ drained \in Nat
    BY DEF P2PInit, DefaultCap
  <2> QED
    BY <2>1, <2>2, <2>3, <2>4, <2>5 DEF OwnTypeOK
<1>3. Vetting
  BY P2PAssumption DEF P2PInit, Vetting
<1> QED
  BY <1>1, <1>2, <1>3 DEF P2PInv

LEMMA ConfigureTypes ==
  ASSUME P2PInv, NEW u \in Users \cup {Nobody},
         NEW socket \in Sockets \cup {Absent}, NEW auto \in AutoAccepts,
         NEW cap \in Caps, Configure(u, socket, auto, cap)
  PROVE  OwnTypeOK' /\ Vetting'
<1> USE P2PAssumption
<1>1. g_auto_accept' \in BOOLEAN /\ g_max_packets_per_tick' \in Nat
  BY DEF Configure, Given, P2PInv, OwnTypeOK
<1>2. scope' \in (Users \cup {Nobody}) \X (Sockets \cup {Absent})
  BY DEF Configure, P2PInv, OwnTypeOK
<1>3. Vetting'
  BY DEF Configure, Given, Vetting
<1> QED
  BY <1>1, <1>2, <1>3
     DEF Configure, OwnTypeOK, P2PInv, sdkVars

LEMMA DrainTypes ==
  ASSUME P2PInv, DrainOne
  PROVE  OwnTypeOK' /\ Vetting'
<1>1. g_local_user \in Users /\ queue[g_local_user] > 0
  BY DEF DrainOne, HasPacket, P2PInv, PlatformInv, TypeOK
<1>2. queue' \in [Users -> Nat] /\ drained' \in Nat
  BY <1>1 DEF DrainOne, Count, P2PInv, OwnTypeOK
<1> QED
  BY <1>2 DEF DrainOne, OwnTypeOK, Vetting, P2PInv, configVars

LEMMA P2PNextTypes == P2PInv /\ [Next]_vars => OwnTypeOK' /\ Vetting'
<1> SUFFICES ASSUME P2PInv, [Next]_vars PROVE OwnTypeOK' /\ Vetting'
  OBVIOUS
<1>1. ASSUME UNCHANGED p2pVars PROVE OwnTypeOK' /\ Vetting'
  BY <1>1 DEF p2pVars, configVars, sdkVars, P2PInv, OwnTypeOK,
              Vetting
<1>2. CASE PlatformStep
  BY <1>1, <1>2 DEF PlatformStep
<1>3. ASSUME NEW c \in Clients, Init(c) PROVE OwnTypeOK' /\ Vetting'
  <2>1. retried' \in BOOLEAN
    BY <1>3 DEF Init, P2PInv, PlatformInv, TypeOK, OwnTypeOK
  <2> QED
    BY <1>3, <2>1 DEF Init, configVars, sdkVars, P2PInv, OwnTypeOK,
                      Vetting
<1>4. ASSUME NEW c \in Clients, Shutdown(c) PROVE OwnTypeOK' /\ Vetting'
  <2>1. scope' \in (Users \cup {Nobody}) \X (Sockets \cup {Absent})
    BY <1>4 DEF Shutdown, P2PInv, OwnTypeOK
  <2> QED
    BY <1>4, <2>1 DEF Shutdown, sdkVars, P2PInv, OwnTypeOK, Vetting
<1>5. ASSUME NEW u \in Users \cup {Nobody}, NEW socket \in Sockets \cup {Absent},
             NEW auto \in AutoAccepts, NEW cap \in Caps,
             Configure(u, socket, auto, cap)
      PROVE  OwnTypeOK' /\ Vetting'
  BY <1>5, ConfigureTypes
<1>6. ASSUME NEW link \in Links,
             \/ PeerConnects(link) \/ OnConnectionRequest(link)
             \/ Accept(link) \/ Send(link) \/ CloseConnection(link)
      PROVE  OwnTypeOK' /\ Vetting'
  <2>1. /\ requests' \subseteq Links /\ connections' \subseteq Links
        /\ UNCHANGED <<configVars, queue, drained, retried>>
    BY <1>6 DEF PeerConnects, OnConnectionRequest, AutoAccepted, Accept, Send,
                     CloseConnection,
                P2PInv, OwnTypeOK
  <2> QED
    BY <2>1 DEF configVars, P2PInv, OwnTypeOK, Vetting
<1>7. ASSUME NEW u \in Users, PacketArrives(u) PROVE OwnTypeOK' /\ Vetting'
  <2>1. queue' \in [Users -> Nat]
    BY <1>7 DEF PacketArrives, P2PInv, OwnTypeOK
  <2> QED
    BY <1>7, <2>1 DEF PacketArrives, configVars, P2PInv, OwnTypeOK, Vetting
<1>8. CASE StartDraining \/ Created \/ Reported
  BY <1>1, <1>8 DEF StartDraining, Created, Reported
<1>9. CASE DrainOne
  BY <1>9, DrainTypes
<1>10. CASE DrainedAll \/ ReceiveFails \/ DrainedEnough
  BY <1>10 DEF DrainedAll, ReceiveFails, DrainedEnough, LeavesLoop, configVars,
               sdkVars, P2PInv, OwnTypeOK, Vetting
<1>11. CASE Released
  <2>1. queue' \in [Users -> Nat]
    BY <1>11 DEF Released
  <2>2. /\ requests' = {} /\ connections' = {}
        /\ UNCHANGED <<configVars, drained, retried>>
    BY <1>11 DEF Released
  <2> QED
    BY <2>1, <2>2 DEF configVars, P2PInv, OwnTypeOK, Vetting
<1>12. CASE UNCHANGED vars
  BY <1>1, <1>12 DEF vars
<1> QED
  BY <1>2, <1>3, <1>4, <1>5, <1>6, <1>7, <1>8, <1>9, <1>10, <1>11, <1>12
     DEF Next, DrainStep

LEMMA P2PNextInv == P2PInv /\ [Next]_vars => P2PInv'
<1> SUFFICES ASSUME P2PInv, [Next]_vars PROVE P2PInv'
  OBVIOUS
<1>1. PlatformInv'
  BY P2PStepIsPlatformStep, PlatformNextInv DEF P2PInv
<1>2. OwnTypeOK' /\ Vetting'
  BY P2PNextTypes
<1> QED
  BY <1>1, <1>2 DEF P2PInv

LEMMA P2PInvHolds == Spec => []P2PInv
  BY P2PInitInv, P2PNextInv, PTL DEF Spec

\* Every variable keeps its type, whatever configure is given.
THEOREM P2PTypeCorrect == Spec => []P2PTypeOK
<1>1. P2PInv => P2PTypeOK
  BY DEF P2PInv, PlatformInv, OwnTypeOK, P2PTypeOK
<1> QED
  BY <1>1, P2PInvHolds, PTL

-----------------------------------------------------------------------------
(* Vetting.                                                                *)

LEMMA StepVetted ==
  P2PInv /\ [Next]_vars =>
    (asked = FALSE => JsRuns \/ connections' \subseteq connections)
<1> SUFFICES ASSUME P2PInv, [Next]_vars, asked = FALSE, ~JsRuns
             PROVE  connections' \subseteq connections
  OBVIOUS
<1>1. g_auto_accept = FALSE
  BY DEF P2PInv, Vetting
<1>2. ASSUME NEW link \in Links,
             \/ PeerConnects(link) \/ OnConnectionRequest(link)
             \/ Accept(link) \/ Send(link) \/ CloseConnection(link)
      PROVE  connections' \subseteq connections
  BY <1>1, <1>2 DEF PeerConnects, OnConnectionRequest, AutoAccepted, Accept, Send,
                     CloseConnection
<1>3. ASSUME NEW c \in Clients, Init(c) \/ Shutdown(c)
      PROVE  connections' \subseteq connections
  BY <1>3 DEF Init, Shutdown, sdkVars
<1>4. ASSUME NEW u \in Users, PacketArrives(u)
      PROVE  connections' \subseteq connections
  BY <1>4 DEF PacketArrives
<1>5. ASSUME NEW u \in Users \cup {Nobody}, NEW socket, NEW auto, NEW cap,
             Configure(u, socket, auto, cap)
      PROVE  connections' \subseteq connections
  BY <1>5 DEF Configure, sdkVars
<1>6. CASE PlatformStep \/ StartDraining \/ DrainStep \/ Created
  BY <1>6 DEF PlatformStep, StartDraining, DrainStep, DrainOne, DrainedAll,
              ReceiveFails, DrainedEnough, LeavesLoop, Reported, Created, p2pVars,
              sdkVars
<1>7. CASE Released
  BY <1>7 DEF Released
<1>8. CASE UNCHANGED vars
  BY <1>8 DEF vars, p2pVars, sdkVars
<1> QED
  BY <1>2, <1>3, <1>4, <1>5, <1>6, <1>7, <1>8 DEF Next

\* A peer is connected without the application's consent only while autoAccept
\* is on (p2p.cc:197-200).
THEOREM PeersVettedHolds == Spec => PeersVetted
<1>1. P2PInv /\ [Next]_vars =>
        [asked = FALSE =>
           \/ JsRuns \/ connections' \subseteq connections]_vars
  BY StepVetted
<1> QED
  BY <1>1, P2PInvHolds, PTL DEF Spec, PeersVetted

-----------------------------------------------------------------------------
(* Silence after shutdown, and a backlog that is not silent.               *)

\* After shutdown the sink is gone, until an init() is tried again.
SinkGone == shut_down /\ ~retried => emitter = Nobody

LEMMA SinkGoneStep == P2PInv /\ SinkGone /\ [Next]_vars => SinkGone'
<1> SUFFICES ASSUME P2PInv, SinkGone, [Next]_vars PROVE SinkGone'
  OBVIOUS
<1>1. ASSUME NEW c \in Clients, Init(c) PROVE SinkGone'
  <2>1. shut_down' = shut_down
    BY <1>1 DEF Init, ClientInit
  <2> QED
    BY <1>1, <2>1 DEF Init, SinkGone
<1>2. ASSUME NEW c \in Clients, Shutdown(c) PROVE SinkGone'
  BY <1>2 DEF Shutdown, ClientShutdown, NothingToRelease, StartRelease,
              SetEventSink, SinkGone
<1>3. ASSUME UNCHANGED <<shut_down, emitter, retried>> PROVE SinkGone'
  BY <1>3 DEF SinkGone
<1>4. CASE PlatformStep
  BY <1>3, <1>4 DEF PlatformStep, Tick, SdkEvent, SdkLogs, ListenerReturns,
                    stateVars, p2pVars
<1>5. ASSUME NEW u \in Users \cup {Nobody}, NEW socket, NEW auto, NEW cap,
             Configure(u, socket, auto, cap)
      PROVE  SinkGone'
  BY <1>3, <1>5 DEF Configure, ClientConfigure, stateVars
<1>6. ASSUME NEW link \in Links,
             \/ PeerConnects(link) \/ OnConnectionRequest(link)
             \/ Accept(link) \/ Send(link) \/ CloseConnection(link)
      PROVE  SinkGone'
  BY <1>3, <1>6 DEF PeerConnects, OnConnectionRequest, Accept, Send,
                     CloseConnection, platformVars, stateVars
<1>7. ASSUME NEW u \in Users, PacketArrives(u) PROVE SinkGone'
  BY <1>3, <1>7 DEF PacketArrives, platformVars, stateVars
<1>8. CASE StartDraining \/ Created
  BY <1>3, <1>8 DEF StartDraining, SdkDone, Created, CreateReturns, stateVars, p2pVars
<1>9. CASE DrainStep
  BY <1>3, <1>9 DEF DrainStep, DrainOne, DrainedAll, ReceiveFails, DrainedEnough,
                     LeavesLoop, Reported, DrainPacket, DrainEnd, DrainCapped,
                     BacklogReported, stateVars, p2pVars
<1>10. CASE Released
  BY <1>10 DEF Released, ReleaseReturns, SetEventSink, SinkGone
<1>11. CASE UNCHANGED vars
  BY <1>3, <1>11 DEF vars, platformVars, stateVars, p2pVars
<1> QED
  BY <1>1, <1>2, <1>4, <1>5, <1>6, <1>7, <1>8, <1>9, <1>10, <1>11 DEF Next

\* Nothing but EmitEvent calls listeners, and it needs a sink.
LEMMA ListenersNeedSink ==
  P2PInv /\ [Next]_vars =>
    \/ listening' = listening \/ ~listening' \/ emitter # Nobody
    \/ calls' # calls
<1> SUFFICES ASSUME P2PInv, [Next]_vars
             PROVE  \/ listening' = listening \/ ~listening' \/ emitter # Nobody
                    \/ calls' # calls
  OBVIOUS
<1>1. CASE PlatformStep
  BY <1>1 DEF PlatformStep, Tick, SdkEvent, SdkLogs, ListenerReturns,
              CallsListeners, LogCallback, OnAuthExpiration, OnLobbyEvent,
              OnConnectionEvent
<1>2. ASSUME NEW c \in Clients, Init(c) \/ Shutdown(c)
      PROVE  listening' = listening \/ ~listening'
  BY <1>2 DEF Init, ClientInit, InitRefused, InitializeFails, StartCreate,
              Shutdown, ClientShutdown, NothingToRelease, StartRelease, StaysInJs,
              Enter
<1>3. ASSUME NEW u \in Users \cup {Nobody}, NEW socket, NEW auto, NEW cap,
             Configure(u, socket, auto, cap)
      PROVE  listening' = listening
  BY <1>3 DEF Configure, ClientConfigure
<1>4. ASSUME NEW link \in Links,
             \/ PeerConnects(link) \/ Accept(link) \/ Send(link)
             \/ CloseConnection(link)
      PROVE  listening' = listening
  BY <1>4 DEF PeerConnects, Accept, Send, CloseConnection, platformVars
<1>5. ASSUME NEW link \in Links, OnConnectionRequest(link)
      PROVE  ~listening' \/ emitter # Nobody
  BY <1>5 DEF OnConnectionRequest, ReportRequest, CallsListeners
<1>6. ASSUME NEW u \in Users, PacketArrives(u) PROVE listening' = listening
  BY <1>6 DEF PacketArrives, platformVars
<1>7. CASE StartDraining
  BY <1>7 DEF StartDraining, SdkDone
<1>8. CASE DrainStep
  BY <1>8 DEF DrainStep, DrainOne, DrainedAll, ReceiveFails, DrainedEnough,
              Reported, DrainPacket, DrainEnd, DrainCapped, BacklogReported,
              CallsListeners
<1>9. CASE Created \/ Released
  <2>1. PICK what \in {"create", "release"} : Leave(what)
    BY <1>9 DEF Created, Released, CreateReturns, ReleaseReturns
  <2>2. calls \in Seq(Calls) /\ calls # << >> /\ calls' = Tail(calls)
    BY <2>1 DEF Leave, SdkRuns, P2PInv, PlatformInv, TypeOK
  <2>3. Len(calls') = Len(calls) - 1 /\ Len(calls) \in Nat
    BY <2>2
  <2> QED
    BY <2>3
<1>10. CASE UNCHANGED vars
  BY <1>10 DEF vars, platformVars
<1> QED
  BY <1>1, <1>2, <1>3, <1>4, <1>5, <1>6, <1>7, <1>8, <1>9, <1>10 DEF Next

\* Once EOS is shut down no listener is called any more, whoever shut it down
\* and whatever was on the stack, log listeners that called back into the SDK
\* included (platform.cc:216, index.js:476).
THEOREM QuietAfterShutdownHolds == Spec => QuietAfterShutdown
<1>1. P2PInit => SinkGone
  BY DEF P2PInit, PlatformInit, SinkGone
<1>2. P2PInv /\ SinkGone /\ [Next]_vars =>
        [shut_down /\ ~retried /\ ~listening
           => ~listening' \/ calls' # calls]_vars
  BY ListenersNeedSink DEF SinkGone
<1> QED
  BY <1>1, <1>2, SinkGoneStep, P2PInvHolds, PTL DEF Spec, QuietAfterShutdown

LEMMA BacklogStep ==
  P2PInv /\ [Next]_vars =>
    (frame = "drain" /\ frame' # "drain" /\ LeftBehind'
       => listening' \/ exception \/ emitter = Nobody \/ ReceiveFails)
<1> SUFFICES ASSUME P2PInv, [Next]_vars, frame = "drain", frame' # "drain", LeftBehind'
             PROVE  listening' \/ exception \/ emitter = Nobody \/ ReceiveFails
  OBVIOUS
<1>1. CASE DrainedAll
  BY <1>1 DEF DrainedAll, DrainEnd, HasPacket, LeavesLoop, LeftBehind, stateVars,
              sdkVars
<1>2. CASE DrainedEnough
  BY <1>2 DEF DrainedEnough, DrainCapped, CallsListeners
<1>3. CASE DrainOne \/ Reported \/ StartDraining \/ Created \/ Released
  BY <1>3 DEF DrainOne, DrainPacket, Reported, BacklogReported, StartDraining,
              SdkDone, Created, CreateReturns, Released, ReleaseReturns
<1>4. CASE PlatformStep
  BY <1>4 DEF PlatformStep, Tick, SdkEvent, SdkLogs, ListenerReturns
<1>5. ASSUME NEW c \in Clients, Init(c) \/ Shutdown(c) PROVE frame' = frame
  BY <1>5 DEF Init, ClientInit, Shutdown, ClientShutdown
<1>6. ASSUME NEW u \in Users \cup {Nobody}, NEW socket, NEW auto, NEW cap,
             Configure(u, socket, auto, cap)
      PROVE  frame' = frame
  BY <1>6 DEF Configure, ClientConfigure
<1>7. ASSUME NEW link \in Links,
             \/ PeerConnects(link) \/ OnConnectionRequest(link)
             \/ Accept(link) \/ Send(link) \/ CloseConnection(link)
      PROVE  frame' = frame
  BY <1>7 DEF PeerConnects, OnConnectionRequest, Accept, Send, CloseConnection,
              platformVars
<1>8. ASSUME NEW u \in Users, PacketArrives(u) PROVE frame' = frame
  BY <1>8 DEF PacketArrives, platformVars
<1>9. CASE UNCHANGED vars
  BY <1>9 DEF vars, platformVars
<1> QED
  BY <1>1, <1>2, <1>3, <1>4, <1>5, <1>6, <1>7, <1>8, <1>9 DEF Next, DrainStep

\* Whatever listeners configure while packets are drained, a tick whose drain
\* ends with packets left behind tells JavaScript so if it can be told, but for
\* the one path that returns in silence: a packet that EOS_P2P_ReceivePacket
\* refused (p2p.cc:343-347, 359-365).
THEOREM BacklogReportedToJsHolds == Spec => BacklogReportedToJs
<1>1. P2PInv /\ [Next]_vars =>
        [frame = "drain" /\ frame' # "drain" /\ LeftBehind'
           => listening' \/ exception \/ emitter = Nobody \/ ReceiveFails]_vars
  BY BacklogStep
<1> QED
  BY <1>1, P2PInvHolds, PTL DEF Spec, BacklogReportedToJs

-----------------------------------------------------------------------------
(* When the notifications cover what configure() said last.                *)

\* While connections are watched, configure() is not called for another user or
\* another socket.
ConfiguredOnce ==
  [][\A u \in Users \cup {Nobody}, socket \in Sockets \cup {Absent},
        auto \in AutoAccepts, cap \in Caps :
       Configure(u, socket, auto, cap) /\ "p2p" \in g_notification
         => u = g_local_user /\ socket = g_socket_name]_vars

BoundToLast ==
  "p2p" \in g_notification => scope = <<g_local_user, g_socket_name>>

LEMMA BoundStep ==
  ASSUME P2PInv, BoundToLast, [Next]_vars,
         [\A u \in Users \cup {Nobody}, socket \in Sockets \cup {Absent},
             auto \in AutoAccepts, cap \in Caps :
            Configure(u, socket, auto, cap) /\ "p2p" \in g_notification
              => u = g_local_user /\ socket = g_socket_name]_vars
  PROVE  BoundToLast'
<1> USE DEF BoundToLast, P2PInv, PlatformInv, TypeOK
<1>1. ASSUME UNCHANGED <<g_notification, g_local_user, g_socket_name, scope>>
      PROVE  BoundToLast'
  BY <1>1
<1>2. CASE PlatformStep
  BY <1>1, <1>2 DEF PlatformStep, Tick, SdkEvent, SdkLogs, ListenerReturns,
                    p2pVars, configVars
<1>3. ASSUME NEW c \in Clients, Init(c) PROVE BoundToLast'
  BY <1>1, <1>3 DEF Init, ClientInit, configVars
<1>4. ASSUME NEW c \in Clients, Shutdown(c) PROVE BoundToLast'
  BY <1>4 DEF Shutdown, ClientShutdown, NothingToRelease, StartRelease,
              ClearNotifications
<1>5. ASSUME NEW u \in Users \cup {Nobody}, NEW socket \in Sockets \cup {Absent},
             NEW auto \in AutoAccepts, NEW cap \in Caps,
             Configure(u, socket, auto, cap), ~UNCHANGED vars
      PROVE  BoundToLast'
  <2>1. "p2p" \in g_notification => u = g_local_user /\ socket = g_socket_name
    BY <1>5
  <2> QED
    BY <1>5, <2>1 DEF Configure, ClientConfigure
<1>6. ASSUME NEW link \in Links,
             \/ PeerConnects(link) \/ OnConnectionRequest(link)
             \/ Accept(link) \/ Send(link) \/ CloseConnection(link)
      PROVE  BoundToLast'
  BY <1>1, <1>6 DEF PeerConnects, OnConnectionRequest, Accept, Send,
                    CloseConnection, platformVars, configVars
<1>7. ASSUME NEW u \in Users, PacketArrives(u) PROVE BoundToLast'
  BY <1>1, <1>7 DEF PacketArrives, platformVars, configVars
<1>8. CASE StartDraining \/ DrainStep
  BY <1>1, <1>8 DEF StartDraining, DrainStep, SdkDone, DrainOne, DrainedAll,
       ReceiveFails, DrainedEnough, LeavesLoop, Reported, DrainPacket, DrainEnd,
       DrainCapped, BacklogReported, p2pVars, configVars
<1>9. CASE Released
  BY <1>1, <1>9 DEF Released, ReleaseReturns, configVars
<1>10. CASE Created
  <2>1. ASSUME StartTicking(Head(calls).by)
        PROVE  "p2p" \in g_notification' => "p2p" \in g_notification
    BY <2>1 DEF StartTicking, WatchLobby, WatchAuthExpiration
  <2>2. "p2p" \in g_notification' => "p2p" \in g_notification
    BY <1>10, <2>1 DEF Created, CreateReturns
  <2>3. UNCHANGED <<g_local_user, g_socket_name, scope>>
    BY <1>10 DEF Created, CreateReturns, p2pVars, configVars
  <2> QED
    BY <2>2, <2>3
<1>11. CASE UNCHANGED vars
  BY <1>1, <1>11 DEF vars, platformVars, p2pVars, configVars
<1> QED
  BY <1>2, <1>3, <1>4, <1>5, <1>6, <1>7, <1>8, <1>9, <1>10, <1>11 DEF Next

\* p2p.cc:197-198: the notifications cover the user and the socket configured
\* last, as long as neither changes while connections are watched.
THEOREM SocketHeardIfConfiguredOnce ==
  Spec /\ ConfiguredOnce => []ConfiguredSocketHeard
<1>1. P2PInit => BoundToLast
  BY DEF P2PInit, PlatformInit, BoundToLast
<1>2. /\ P2PInv /\ BoundToLast /\ [Next]_vars
      /\ [\A u \in Users \cup {Nobody}, socket \in Sockets \cup {Absent},
             auto \in AutoAccepts, cap \in Caps :
            Configure(u, socket, auto, cap) /\ "p2p" \in g_notification
              => u = g_local_user /\ socket = g_socket_name]_vars
      => BoundToLast'
  BY BoundStep
<1>3. BoundToLast => ConfiguredSocketHeard
  BY DEF BoundToLast, ConfiguredSocketHeard, Heard
<1> QED
  BY <1>1, <1>2, <1>3, P2PInvHolds, PTL DEF Spec, ConfiguredOnce
=============================================================================
