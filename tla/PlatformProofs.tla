--------------------------- MODULE PlatformProofs ---------------------------
(***************************************************************************)
(* Safety of the platform's life, for any number of clients and users.     *)
(*                                                                         *)
(* The invariant ties the addon's three flags to the state of the library, *)
(* which the code cannot see, and, until a log listener calls back into    *)
(* the SDK while it creates or releases the platform, says what is true    *)
(* while the one call on the stack is inside: a platform that is created   *)
(* has no interval yet, one that is released has lost its notifications.   *)
(***************************************************************************)
EXTENDS Platform, TLAPS

FlagsFollowLibrary ==
  /\ initialized <=> library \in {"ours", "down"}
  /\ shut_down <=> library = "down"
  /\ calls # << >> \/ platform => initialized

InitializedOnce == "EOS_Initialize" \notin misuse

\* A call that is inside the SDK has it to itself.
OneCall ==
  calls # << >> =>
    /\ Len(calls) = 1
    /\ ~shut_down
    /\ calls[1].what = "create" => ~platform
    /\ calls[1].what = "release" => platform /\ g_notification \subseteq {"auth"}

TimerMeansInit == \A c \in Clients : tickTimer[c] => platform \/ shut_down

\* What holds until a log listener calls back into the SDK.
Undisturbed ==
  /\ OneCall
  /\ misuse \subseteq {"EOS_P2P"}
  /\ platform => library = "ours" /\ initialized /\ ~shut_down
  /\ ~platform => g_notification \subseteq {"auth"}
  /\ TimerMeansInit
  /\ \A c, d \in Clients : tickTimer[c] /\ tickTimer[d] => c = d
  /\ ~lostTimer

PlatformInv ==
  /\ TypeOK
  /\ FlagsFollowLibrary
  /\ InitializedOnce
  /\ ~reentered => Undisturbed

LEMMA PlatformInitInv == PlatformInit => PlatformInv
<1> SUFFICES ASSUME PlatformInit PROVE PlatformInv
  OBVIOUS
<1>1. << >> \in Seq(Calls)
  OBVIOUS
<1>2. TypeOK
  BY <1>1, PlatformAssumption DEF PlatformInit, TypeOK, LibraryStates, Frames
<1>3. FlagsFollowLibrary /\ InitializedOnce
  BY DEF PlatformInit, FlagsFollowLibrary, InitializedOnce
<1>4. Undisturbed
  BY DEF PlatformInit, Undisturbed, OneCall, TimerMeansInit
<1> QED
  BY <1>2, <1>3, <1>4 DEF PlatformInv

\* What the three properties need of the invariant.
LEMMA PlatformInvImplies ==
  ASSUME PlatformInv
  PROVE  SdkContract /\ NotificationsCleared /\ OneTickLoop
  BY DEF PlatformInv, InitializedOnce, Undisturbed, SdkContract,
         NotificationsCleared, OneTickLoop

\* Calls go on the stack and come off it.
LEMMA EnterCalls ==
  ASSUME TypeOK, NEW c \in Clients, NEW what \in {"create", "release"},
         Enter(what, c)
  PROVE  /\ calls' \in Seq(Calls)
         /\ calls' # << >>
         /\ calls'[1].what = what
         /\ calls = << >> => Len(calls') = 1
         /\ listening' = FALSE
         /\ reentered' \in BOOLEAN
         /\ ~reentered' => ~reentered /\ calls = << >>
<1>1. [what |-> what, by |-> c] \in Calls /\ calls \in Seq(Calls)
  BY DEF Calls, TypeOK
<1>2. calls' = <<[what |-> what, by |-> c]>> \o calls
  BY DEF Enter
<1>3. calls' \in Seq(Calls) /\ Len(calls') = 1 + Len(calls)
  BY <1>1, <1>2
<1>4. calls'[1] = [what |-> what, by |-> c]
  BY <1>1, <1>2
<1>5. calls' # << >> /\ (calls = << >> => Len(calls') = 1)
  BY <1>1, <1>3
<1>6. /\ listening' = FALSE
      /\ reentered' \in BOOLEAN
      /\ ~reentered' => ~reentered /\ calls = << >>
  BY DEF Enter, TypeOK
<1>7. calls'[1].what = what
  BY <1>4
<1> QED
  BY <1>3, <1>5, <1>6, <1>7

LEMMA LeaveCalls ==
  ASSUME TypeOK, NEW what \in {"create", "release"}, Leave(what)
  PROVE  /\ calls' \in Seq(Calls)
         /\ calls # << >>
         /\ calls[1].what = what /\ calls[1].by \in Clients
         /\ calls[1] = Head(calls)
         /\ Len(calls) = 1 => calls' = << >>
         /\ listening' \in BOOLEAN
         /\ exception' = FALSE
<1>1. calls \in Seq(Calls) /\ calls # << >> /\ calls' = Tail(calls)
  BY DEF Leave, SdkRuns, TypeOK
<1>2. calls' \in Seq(Calls) /\ Len(calls') = Len(calls) - 1 /\ calls[1] = Head(calls)
  BY <1>1
<1>3. calls[1] \in Calls
  BY <1>1, <1>2
<1> QED
  BY <1>1, <1>2, <1>3 DEF Leave, Calls

\* InitializeLibrary, seen from a library that is not down.
LEMMA InitializeLibraryInv ==
  ASSUME TypeOK, FlagsFollowLibrary, InitializedOnce, ~shut_down,
         InitializeLibrary
  PROVE  /\ initialized' = TRUE
         /\ library' = "ours"
         /\ misuse' = misuse
  BY DEF TypeOK, FlagsFollowLibrary, InitializeLibrary, CallSdk, LibraryStates

LEMMA ClientInitInv ==
  ASSUME PlatformInv, NEW c \in Clients, ClientInit(c)
  PROVE  PlatformInv'
<1> USE DEF PlatformInv
<1>1. /\ UNCHANGED <<platform, shut_down, tickTimer, lostTimer, g_local_user,
                     g_notification, frame, exception>>
      /\ emitter' = c
  BY DEF ClientInit, SetEventSink, timerVars
<1>2. CASE InitRefused
  BY <1>1, <1>2 DEF InitRefused, StaysInJs, callVars, TypeOK, FlagsFollowLibrary,
                    InitializedOnce, Undisturbed, OneCall, TimerMeansInit
<1>3. CASE InitializeFails
  <2>1. /\ UNCHANGED <<initialized, library, calls, reentered, listening>>
        /\ misuse' = misuse
    BY <1>3 DEF InitializeFails, StaysInJs, callVars, CallSdk, MayInit, TypeOK,
                FlagsFollowLibrary, LibraryStates
  <2> QED
    BY <1>1, <2>1 DEF TypeOK, FlagsFollowLibrary, InitializedOnce, Undisturbed,
                      OneCall, TimerMeansInit
<1>4. CASE StartCreate(c)
  <2>1. initialized' = TRUE /\ library' = "ours" /\ misuse' = misuse
    BY <1>4, InitializeLibraryInv DEF StartCreate, MayInit
  <2>2. /\ calls' \in Seq(Calls)
        /\ calls' # << >>
        /\ calls'[1].what = "create"
        /\ calls = << >> => Len(calls') = 1
        /\ listening' = FALSE
        /\ reentered' \in BOOLEAN
        /\ ~reentered' => ~reentered /\ calls = << >>
    BY <1>4, EnterCalls DEF StartCreate
  <2>3. ~platform /\ ~shut_down
    BY <1>4 DEF StartCreate, MayInit
  <2>4. TypeOK' /\ FlagsFollowLibrary' /\ InitializedOnce'
    BY <1>1, <2>1, <2>2, <2>3 DEF TypeOK, FlagsFollowLibrary, InitializedOnce,
                                  LibraryStates
  <2>5. ~reentered' => Undisturbed'
    BY <1>1, <2>1, <2>2, <2>3 DEF Undisturbed, OneCall, TimerMeansInit
  <2> QED
    BY <2>4, <2>5
<1> QED
  BY <1>2, <1>3, <1>4 DEF ClientInit

LEMMA CreateReturnsInv ==
  ASSUME PlatformInv, CreateReturns
  PROVE  PlatformInv'
<1> USE DEF PlatformInv
<1>1. /\ calls' \in Seq(Calls)
      /\ calls # << >>
      /\ calls[1].what = "create" /\ Head(calls).by \in Clients
      /\ Len(calls) = 1 => calls' = << >>
      /\ listening' \in BOOLEAN
      /\ exception' = FALSE
  BY LeaveCalls DEF CreateReturns
<1>2. UNCHANGED <<initialized, shut_down, emitter, g_local_user, library, misuse,
                  frame, reentered>>
  BY DEF CreateReturns
<1>3. \/ platform' = FALSE /\ UNCHANGED <<tickTimer, lostTimer, g_notification>>
      \/ platform' = TRUE /\ UNCHANGED <<tickTimer, lostTimer, g_notification>>
      \/ platform' = TRUE /\ StartTicking(Head(calls).by)
  BY DEF CreateReturns, timerVars
<1>4. ASSUME StartTicking(Head(calls).by)
      PROVE  /\ tickTimer' = [tickTimer EXCEPT ![Head(calls).by] = TRUE]
             /\ lostTimer' = (lostTimer \/ tickTimer[Head(calls).by])
             /\ g_notification' \in {g_notification \cup {"auth"},
                                     g_notification \cup {"auth", "lobby"}}
  BY <1>4 DEF StartTicking, WatchAuthExpiration, WatchLobby
<1>5. /\ platform' \in BOOLEAN
      /\ tickTimer' \in [Clients -> BOOLEAN]
      /\ lostTimer' \in BOOLEAN
      /\ g_notification' \subseteq NotificationGroups
  BY <1>1, <1>3, <1>4 DEF TypeOK, NotificationGroups
<1>6. TypeOK' /\ FlagsFollowLibrary' /\ InitializedOnce'
  BY <1>1, <1>2, <1>5 DEF TypeOK, FlagsFollowLibrary, InitializedOnce
<1>7. ASSUME ~reentered' PROVE Undisturbed'
  <2>1. Undisturbed /\ calls' = << >> /\ ~platform /\ ~shut_down
    BY <1>1, <1>2, <1>7 DEF Undisturbed, OneCall
  <2>2. \A d \in Clients : ~tickTimer[d]
    BY <2>1 DEF Undisturbed, TimerMeansInit
  <2>3. initialized /\ library = "ours"
    BY <1>1, <2>1 DEF FlagsFollowLibrary
  <2>4. CASE UNCHANGED <<tickTimer, lostTimer, g_notification>>
    BY <1>1, <1>2, <1>5, <2>1, <2>2, <2>3, <2>4
       DEF Undisturbed, OneCall, TimerMeansInit
  <2>5. CASE platform' = TRUE /\ StartTicking(Head(calls).by)
    <3>1. ~lostTimer'
      BY <1>1, <1>4, <2>1, <2>2, <2>5 DEF Undisturbed
    <3>2. \A d \in Clients : tickTimer'[d] => d = Head(calls).by
      BY <1>1, <1>4, <2>2, <2>5 DEF TypeOK
    <3> QED
      BY <1>2, <2>1, <2>3, <2>5, <3>1, <3>2 DEF Undisturbed, OneCall, TimerMeansInit
  <2> QED
    BY <1>3, <2>4, <2>5
<1> QED
  BY <1>6, <1>7

LEMMA ClientShutdownInv ==
  ASSUME PlatformInv, NEW c \in Clients, ClientShutdown(c)
  PROVE  PlatformInv'
<1> USE DEF PlatformInv
<1>1. /\ UNCHANGED <<initialized, platform, shut_down, lostTimer, library, frame,
                     exception>>
      /\ tickTimer' = [tickTimer EXCEPT ![c] = FALSE]
  BY DEF ClientShutdown
<1>2. /\ tickTimer' \in [Clients -> BOOLEAN]
      /\ \A d \in Clients : tickTimer'[d] => tickTimer[d]
  BY <1>1 DEF TypeOK
<1>3. CASE NothingToRelease
  BY <1>1, <1>2, <1>3
     DEF NothingToRelease, SetEventSink, StaysInJs, callVars, TypeOK,
         FlagsFollowLibrary, InitializedOnce, Undisturbed, OneCall,
         TimerMeansInit
<1>4. CASE StartRelease(c)
  <2>1. /\ calls' \in Seq(Calls)
        /\ calls' # << >>
        /\ calls'[1].what = "release"
        /\ calls = << >> => Len(calls') = 1
        /\ listening' = FALSE
        /\ reentered' \in BOOLEAN
        /\ ~reentered' => ~reentered /\ calls = << >>
    BY <1>4, EnterCalls DEF StartRelease
  <2>2. /\ platform /\ emitter' = emitter /\ g_local_user' = Nobody
        /\ g_notification' = g_notification \ {"lobby", "p2p"}
    BY <1>4 DEF StartRelease, ClearNotifications
  <2>3. misuse' \in {misuse, misuse \cup {"EOS_Platform_Release"}}
    BY <1>4 DEF StartRelease, CallSdk
  <2>4. g_notification' \subseteq {"auth"}
    BY <2>2 DEF TypeOK, NotificationGroups
  <2>5. ASSUME ~reentered' PROVE Undisturbed'
    <3>1. Undisturbed /\ calls = << >>
      BY <2>1, <2>5
    <3>2. misuse' = misuse
      BY <1>4, <2>2, <3>1 DEF StartRelease, CallSdk, Undisturbed
    <3> QED
      BY <1>1, <1>2, <2>1, <2>2, <2>4, <3>1, <3>2
         DEF Undisturbed, OneCall, TimerMeansInit
  <2>6. FlagsFollowLibrary' /\ InitializedOnce'
    <3>1. platform' /\ initialized' = initialized /\ library' = library
      BY <1>1, <2>2
    <3>2. initialized
      BY <2>2 DEF TypeOK, FlagsFollowLibrary, Undisturbed
    <3> QED
      BY <1>1, <2>3, <3>1, <3>2 DEF FlagsFollowLibrary, InitializedOnce
  <2>7. TypeOK'
    BY <1>1, <1>2, <2>1, <2>2, <2>3, <2>4
       DEF TypeOK, SdkCalls, NotificationGroups
  <2> QED
    BY <2>5, <2>6, <2>7
<1> QED
  BY <1>3, <1>4 DEF ClientShutdown

LEMMA ReleaseReturnsInv ==
  ASSUME PlatformInv, ReleaseReturns
  PROVE  PlatformInv'
<1> USE DEF PlatformInv
<1>1. /\ calls' \in Seq(Calls)
      /\ calls # << >>
      /\ calls[1].what = "release"
      /\ Len(calls) = 1 => calls' = << >>
      /\ listening' \in BOOLEAN
      /\ exception' = FALSE
  BY LeaveCalls DEF ReleaseReturns
<1>2. /\ UNCHANGED <<initialized, tickTimer, lostTimer, g_local_user,
                     g_notification, frame, reentered>>
      /\ platform' = FALSE /\ library' = "down" /\ shut_down' = TRUE
      /\ emitter' = Nobody
      /\ misuse' \in {misuse, misuse \cup {"EOS_Shutdown"}}
      /\ library = "ours" => misuse' = misuse
  BY DEF ReleaseReturns, CallSdk, SetEventSink, timerVars
<1>3. TypeOK' /\ FlagsFollowLibrary' /\ InitializedOnce'
  BY <1>1, <1>2 DEF TypeOK, FlagsFollowLibrary, InitializedOnce, LibraryStates,
                    SdkCalls
<1>4. ASSUME ~reentered' PROVE Undisturbed'
  BY <1>1, <1>2, <1>4 DEF Undisturbed, OneCall, TimerMeansInit
<1> QED
  BY <1>3, <1>4

\* The steps that leave calls, timers and the addon's flags alone.
LEMMA TickInv ==
  ASSUME PlatformInv,
         UNCHANGED <<stateVars, timerVars, g_local_user, g_notification,
                     library, callVars>>,
         frame' \in Frames, listening' \in BOOLEAN, exception' \in BOOLEAN,
         misuse' \in {misuse, misuse \cup {"EOS_P2P"}}
  PROVE  PlatformInv'
  BY DEF PlatformInv, stateVars, timerVars, callVars, TypeOK, SdkCalls,
         FlagsFollowLibrary, InitializedOnce, Undisturbed, OneCall,
         TimerMeansInit

LEMMA PlatformNextInv == PlatformInv /\ [PlatformNext]_platformVars => PlatformInv'
<1> SUFFICES ASSUME PlatformInv, [PlatformNext]_platformVars
             PROVE  PlatformInv'
  OBVIOUS
<1> USE PlatformAssumption
<1>t. /\ frame \in Frames /\ listening \in BOOLEAN /\ exception \in BOOLEAN
      /\ CallsListeners \in BOOLEAN
  BY DEF PlatformInv, TypeOK, CallsListeners
<1>1. ASSUME NEW c \in Clients, ClientInit(c) PROVE PlatformInv'
  BY <1>1, ClientInitInv
<1>2. ASSUME NEW c \in Clients, ClientShutdown(c) PROVE PlatformInv'
  BY <1>2, ClientShutdownInv
<1>3. CASE CreateReturns
  BY <1>3, CreateReturnsInv
<1>4. CASE ReleaseReturns
  BY <1>4, ReleaseReturnsInv
<1>5. ASSUME NEW c \in Clients, Tick(c) PROVE PlatformInv'
  <2>1. /\ UNCHANGED <<stateVars, timerVars, g_local_user, g_notification,
                       library, callVars, listening, exception>>
        /\ frame' = "tick" /\ platform
        /\ misuse' \in {misuse, misuse \cup {"EOS_Platform_Tick"}}
        /\ library = "ours" => misuse' = misuse
    BY <1>5 DEF Tick, CallSdk
  <2> QED
    BY <2>1 DEF PlatformInv, stateVars, timerVars, callVars, TypeOK, SdkCalls,
                Frames, FlagsFollowLibrary, InitializedOnce, Undisturbed,
                OneCall, TimerMeansInit
<1>6. ASSUME NEW u \in Users \cup {Nobody}, ClientConfigure(u) PROVE PlatformInv'
  <2>1. /\ UNCHANGED <<stateVars, timerVars, library, misuse, frame, calls,
                       listening, exception>>
        /\ g_local_user' = u
        /\ g_notification' \in {g_notification, g_notification \cup {"p2p"}}
        /\ ~platform => g_notification' = g_notification
        /\ reentered' = (reentered \/ (platform /\ calls # << >>))
    BY <1>6 DEF ClientConfigure
  <2>2. TypeOK' /\ FlagsFollowLibrary' /\ InitializedOnce'
    BY <2>1 DEF PlatformInv, stateVars, timerVars, TypeOK, NotificationGroups,
                FlagsFollowLibrary, InitializedOnce
  <2>3. ASSUME ~reentered' PROVE Undisturbed'
    BY <2>1, <2>3 DEF PlatformInv, stateVars, timerVars, TypeOK, Undisturbed,
                      OneCall, TimerMeansInit
  <2> QED
    BY <2>2, <2>3 DEF PlatformInv
<1>7. CASE SdkEvent
  BY <1>7, <1>t, TickInv DEF SdkEvent, PlatformInv, TypeOK
<1>8. CASE SdkLogs
  BY <1>8, <1>t, TickInv DEF SdkLogs
<1>9. CASE ListenerReturns
  BY <1>9, <1>t, TickInv DEF ListenerReturns
<1>10. CASE SdkDone
  BY <1>10, <1>t, TickInv DEF SdkDone, Frames
<1>11. CASE DrainPacket
  BY <1>11, <1>t, TickInv DEF DrainPacket
<1>12. CASE DrainEnd
  BY <1>12, <1>t, TickInv DEF DrainEnd, CallSdk, Frames
<1>13. CASE DrainCapped
  BY <1>13, <1>t, TickInv DEF DrainCapped, Frames
<1>14. CASE BacklogReported
  BY <1>14, <1>t, TickInv DEF BacklogReported, Frames
<1>15. CASE UNCHANGED platformVars
  BY <1>15, <1>t, TickInv DEF platformVars
<1> QED
  BY <1>1, <1>2, <1>3, <1>4, <1>5, <1>6, <1>7, <1>8, <1>9, <1>10,
     <1>11, <1>12, <1>13, <1>14, <1>15
     DEF PlatformNext

LEMMA PlatformInvHolds == PlatformSpec => []PlatformInv
  BY PlatformInitInv, PlatformNextInv, PTL DEF PlatformSpec

\* Every variable keeps its type, whatever the number of clients.
THEOREM PlatformTypeCorrect == PlatformSpec => []TypeOK
<1>1. PlatformInv => TypeOK
  BY DEF PlatformInv
<1> QED
  BY <1>1, PlatformInvHolds, PTL

\* EOS_Initialize succeeds once at most and is never called after EOS_Shutdown,
\* whatever listeners do; and EOS_Platform_Tick, Release and EOS_Shutdown are
\* called in an order the SDK allows (eosjs.h:30-34) as long as no 'log' listener
\* calls init(), shutdown() or p2p.configure() inside EOS_Platform_Create or
\* EOS_Platform_Release.
THEOREM SdkContractHolds == PlatformSpec => []SdkContract
<1>1. PlatformInv => SdkContract
  BY PlatformInvImplies
<1> QED
  BY <1>1, PlatformInvHolds, PTL

\* No lobby or P2P notification outlives its platform (platform.cc:206-210),
\* under the same condition on 'log' listeners.
THEOREM NotificationsClearedHolds == PlatformSpec => []NotificationsCleared
<1>1. PlatformInv => NotificationsCleared
  BY PlatformInvImplies
<1> QED
  BY <1>1, PlatformInvHolds, PTL

\* Two intervals never tick one platform (index.js:394-412), under the same
\* condition on 'log' listeners.
THEOREM OneTickLoopHolds == PlatformSpec => []OneTickLoop
<1>1. PlatformInv => OneTickLoop
  BY PlatformInvImplies
<1> QED
  BY <1>1, PlatformInvHolds, PTL

-----------------------------------------------------------------------------
(* When nothing polls after a shutdown.                                    *)

\* No listener that DrainPackets calls shuts EOS down.
NoShutdownWhileDraining ==
  [][\A c \in Clients : frame = "drain" => ~ClientShutdown(c)]_platformVars

\* Nor is a call inside the SDK then: a platform that is there cannot be created.
DrainsLivePlatform ==
  /\ frame = "drain" => platform /\ calls = << >>
  /\ NoPollAfterShutdown

LEMMA DrainsLiveStep ==
  ASSUME TypeOK, DrainsLivePlatform, [PlatformNext]_platformVars,
         [\A c \in Clients : frame = "drain" => ~ClientShutdown(c)]_platformVars
  PROVE  DrainsLivePlatform'
<1> USE DEF DrainsLivePlatform, NoPollAfterShutdown, TypeOK
<1>1. CASE UNCHANGED platformVars
  BY <1>1 DEF platformVars, stateVars, callVars
<1>2. ASSUME NEW c \in Clients, ClientInit(c) PROVE DrainsLivePlatform'
  BY <1>2 DEF ClientInit, InitRefused, InitializeFails, StartCreate, MayInit,
              StaysInJs, callVars, InitializeLibrary, CallSdk
<1>3. ASSUME NEW c \in Clients, ClientShutdown(c), ~UNCHANGED platformVars
      PROVE  DrainsLivePlatform'
  <2>1. frame # "drain"
    BY <1>3
  <2> QED
    BY <1>3, <2>1 DEF ClientShutdown, NothingToRelease, StartRelease, CallSdk
<1>4. ASSUME NEW c \in Clients, Tick(c) PROVE DrainsLivePlatform'
  BY <1>4 DEF Tick, CallSdk, stateVars, callVars
<1>5. ASSUME NEW u \in Users \cup {Nobody}, ClientConfigure(u)
      PROVE  DrainsLivePlatform'
  BY <1>5 DEF ClientConfigure, stateVars
<1>6. CASE SdkEvent \/ SdkLogs \/ ListenerReturns
  BY <1>6 DEF SdkEvent, SdkLogs, ListenerReturns, stateVars, callVars
<1>7. CASE SdkDone \/ DrainPacket
  BY <1>7 DEF SdkDone, DrainPacket, NativeRuns, stateVars, callVars
<1>8. CASE DrainEnd \/ DrainCapped \/ BacklogReported
  BY <1>8 DEF DrainEnd, DrainCapped, BacklogReported, CallSdk, stateVars, callVars
<1>9. CASE CreateReturns
  <2>1. calls # << >>
    BY <1>9 DEF CreateReturns, Leave, SdkRuns
  <2> QED
    BY <1>9, <2>1 DEF CreateReturns
<1>10. CASE ReleaseReturns
  <2>1. calls # << >>
    BY <1>10 DEF ReleaseReturns, Leave, SdkRuns
  <2> QED
    BY <1>10, <2>1 DEF ReleaseReturns, CallSdk
<1> QED
  BY <1>1, <1>2, <1>3, <1>4, <1>5, <1>6, <1>7, <1>8, <1>9, <1>10 DEF PlatformNext

\* p2p.cc:312: the look at the platform when DrainPackets starts is enough as
\* long as no listener that it calls shuts EOS down; a shutdown from any other
\* listener, or from the event loop, leaves nothing to poll.
THEOREM NoPollUnlessShutDownInside ==
  PlatformSpec /\ NoShutdownWhileDraining => []NoPollAfterShutdown
<1>1. PlatformInit => DrainsLivePlatform
  BY DEF PlatformInit, DrainsLivePlatform, NoPollAfterShutdown
<1>2. /\ TypeOK /\ DrainsLivePlatform /\ [PlatformNext]_platformVars
      /\ [\A c \in Clients : frame = "drain" => ~ClientShutdown(c)]_platformVars
      => DrainsLivePlatform'
  BY DrainsLiveStep
<1>3. DrainsLivePlatform => NoPollAfterShutdown
  BY DEF DrainsLivePlatform
<1> QED
  BY <1>1, <1>2, <1>3, PlatformTypeCorrect, PTL
     DEF PlatformSpec, NoShutdownWhileDraining
=============================================================================
