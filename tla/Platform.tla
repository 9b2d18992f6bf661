------------------------------ MODULE Platform ------------------------------
(***************************************************************************)
(* The life of the EOS platform inside one Node process: the addon's       *)
(* process-wide State (src/src/eosjs.h), platform.cc, the event sink of    *)
(* addon.cc, and the part of index.js's EosClient that drives them (init,  *)
(* the tick interval, shutdown).                                           *)
(*                                                                         *)
(* JavaScript has one thread.  While the event loop has control, the       *)
(* application may call any method of any client.  While native code is on *)
(* the stack it may do so only from a listener that EmitEvent has called:  *)
(* in tick(), and, from the log callback, in EOS_Platform_Create and       *)
(* EOS_Platform_Release.  Code that runs to completion without giving      *)
(* JavaScript control is one action.                                       *)
(***************************************************************************)
EXTENDS Naturals, Sequences, FiniteSets

CONSTANTS
  Clients,           \* the EosClient objects of the process
  Users,             \* product user ids that p2p.configure may be given
  Nobody,            \* no client, no user: nullptr, or an empty reference
  ListenersMayThrow, \* whether a listener of the application may throw
  MaxCalls           \* bound: calls of EOS_Platform_Create and
                     \* EOS_Platform_Release on the stack

ASSUME PlatformAssumption ==
  /\ Nobody \notin Clients
  /\ Nobody \notin Users
  /\ ListenersMayThrow \in BOOLEAN
  /\ MaxCalls \in Nat

VARIABLES
  initialized,    \* State::initialized: EOS_Initialize has been called
  platform,       \* State::platform is not nullptr
  shut_down,      \* State::shut_down: EOS_Shutdown has been called
  emitter,        \* State::emitter: the client whose sink is registered
  tickTimer,      \* EosClient.#tickTimer is set, per client
  lostTimer,      \* an interval runs that no #tickTimer holds any more
  g_local_user,   \* p2p.cc: the user whose packets are drained
  g_notification, \* the groups of notifications whose ids are not INVALID
  library,        \* the SDK library itself (external)
  misuse,         \* SDK functions that were called against the SDK's rules
  frame,          \* which part of tick() is on the stack, or "loop": none
  calls,          \* the calls of init() and shutdown() above it that are inside
                  \* the SDK, the innermost first
  listening,      \* the code that runs is a listener that EmitEvent called
  exception,      \* N-API: a JavaScript exception is pending
  reentered       \* history: a log listener had a platform created, released
                  \* or watched inside EOS_Platform_Create or _Release

stateVars == <<initialized, platform, shut_down, emitter>>
timerVars == <<tickTimer, lostTimer>>
callVars == <<calls, reentered>>
platformVars == <<stateVars, timerVars, g_local_user, g_notification, library,
                  misuse, frame, callVars, listening, exception>>

NotificationGroups == {"auth", "lobby", "p2p"}
LibraryStates == {"fresh", "foreign", "ours", "down"}
Frames == {"loop", "tick", "drain", "backlog"}
Calls == [what : {"create", "release"}, by : Clients]
SdkCalls == {"EOS_Initialize", "EOS_Platform_Create", "EOS_Platform_Tick",
             "EOS_Platform_Release", "EOS_Shutdown", "EOS_P2P"}

TypeOK ==
  /\ initialized \in BOOLEAN
  /\ platform \in BOOLEAN
  /\ shut_down \in BOOLEAN
  /\ emitter \in Clients \cup {Nobody}
  /\ tickTimer \in [Clients -> BOOLEAN]
  /\ lostTimer \in BOOLEAN
  /\ g_local_user \in Users \cup {Nobody}
  /\ g_notification \subseteq NotificationGroups
  /\ library \in LibraryStates
  /\ misuse \subseteq SdkCalls
  /\ frame \in Frames
  /\ calls \in Seq(Calls)
  /\ listening \in BOOLEAN
  /\ exception \in BOOLEAN
  /\ reentered \in BOOLEAN

\* "foreign": another component of the process has called EOS_Initialize, and
\* the addon's own call will return EOS_AlreadyConfigured.
PlatformInit ==
  /\ initialized = FALSE
  /\ platform = FALSE
  /\ shut_down = FALSE
  /\ emitter = Nobody
  /\ tickTimer = [c \in Clients |-> FALSE]
  /\ lostTimer = FALSE
  /\ g_local_user = Nobody
  /\ g_notification = {}
  /\ library \in {"fresh", "foreign"}
  /\ misuse = {}
  /\ frame = "loop"
  /\ calls = << >>
  /\ listening = FALSE
  /\ exception = FALSE
  /\ reentered = FALSE

-----------------------------------------------------------------------------
(* Who has control.                                                        *)

\* The application's JavaScript can make a call.
JsRuns == (frame = "loop" /\ calls = << >>) \/ listening

\* The SDK, or the addon's own loop, has control inside tick().
NativeRuns == frame # "loop" /\ calls = << >> /\ ~listening

\* The SDK has control inside a call of init() or shutdown().
SdkRuns == calls # << >> /\ ~listening

\* The SDK function f is called; ok is what the SDK demands of the caller.
CallSdk(f, ok) == misuse' = misuse \cup (IF ok THEN {} ELSE {f})

\* Mutation: an empty reference is called.
CallsListeners_NoSink == ~exception

\* Whether EmitEvent reaches the listeners: not without a sink, nor with an
\* exception pending.
CallsListeners == emitter # Nobody /\ ~exception

\* _setEventSink, given a client's #dispatch or null.
SetEventSink(sink) == emitter' = sink

-----------------------------------------------------------------------------
(* Calls that leave JavaScript for the SDK, from the event loop or from a   *)
(* listener, and come back.                                                *)

Enter(what, c) ==
  /\ Len(calls) < MaxCalls
  /\ calls' = <<[what |-> what, by |-> c]>> \o calls
  /\ listening' = FALSE
  /\ reentered' = (reentered \/ calls # << >>)

Leave(what) ==
  /\ SdkRuns
  /\ Head(calls).what = what
  /\ calls' = Tail(calls)
  /\ listening' = (frame # "loop" \/ Tail(calls) # << >>)
  /\ exception' = FALSE

\* A listener calls a method that returns without a call of the SDK that can
\* call back.
StaysInJs == UNCHANGED <<callVars, listening>>

-----------------------------------------------------------------------------
(* EosClient.init and Platform::Init.                                      *)

\* platform.init throws before it calls the SDK: EOS was shut down, EOS is
\* initialised already, or the options are not valid.
InitRefused == UNCHANGED <<initialized, library, misuse>> /\ StaysInJs

\* Mutation: nobody looks at shut_down.
MayInit_AfterShutdown == ~platform

\* Mutation: nobody looks at platform.
MayInit_Again == ~shut_down

\* What Platform::Init demands before it calls the SDK.
MayInit == ~shut_down /\ ~platform

InitializeFails ==
  /\ MayInit /\ ~initialized
  /\ CallSdk("EOS_Initialize", library \in {"fresh", "foreign"})
  /\ UNCHANGED <<initialized, library>>
  /\ StaysInJs

\* EOS_Initialize, called until it has succeeded once: Success and
\* AlreadyConfigured both count.
InitializeLibrary ==
  IF initialized
  THEN UNCHANGED <<initialized, library, misuse>>
  ELSE /\ CallSdk("EOS_Initialize", library \in {"fresh", "foreign"})
       /\ library' = IF library = "down" THEN "down" ELSE "ours"
       /\ initialized' = TRUE

\* The log callback is set, and EOS_Platform_Create called.
StartCreate(c) == MayInit /\ InitializeLibrary /\ Enter("create", c)

\* init() of a client whose timer runs throws at once and changes nothing.
ClientInit(c) ==
  /\ JsRuns
  /\ ~tickTimer[c]
  /\ SetEventSink(c)
  /\ InitRefused \/ InitializeFails \/ StartCreate(c)
  /\ UNCHANGED <<platform, shut_down, timerVars, g_local_user, g_notification,
                 frame, exception>>

\* connect.watchAuthExpiration and lobby.watchLobby, given the ids that are set:
\* a group that is set already is not added again.
WatchAuthExpiration(ids) == ids \cup {"auth"}
WatchLobby(ids) == ids \cup {"lobby"}

\* The interval is started and the notifications added, unless a 'log' listener
\* throws out of watchAuthExpiration.
StartTicking(c) ==
  /\ tickTimer' = [tickTimer EXCEPT ![c] = TRUE]
  /\ lostTimer' = (lostTimer \/ tickTimer[c])
  /\ \/ g_notification' = WatchLobby(WatchAuthExpiration(g_notification))
     \/ /\ ListenersMayThrow /\ emitter # Nobody
        /\ g_notification' = WatchAuthExpiration(g_notification)

\* EOS_Platform_Create returns a platform, or nullptr, which makes init() throw;
\* so does a 'log' listener that has thrown meanwhile.  Either is stored.
CreateReturns ==
  /\ Leave("create")
  /\ \/ platform' = FALSE /\ UNCHANGED <<timerVars, g_notification>>
     \/ platform' = TRUE /\ exception /\ UNCHANGED <<timerVars, g_notification>>
     \/ platform' = TRUE /\ ~exception /\ StartTicking(Head(calls).by)
  /\ UNCHANGED <<initialized, shut_down, emitter, g_local_user, library, misuse,
                 frame, reentered>>

-----------------------------------------------------------------------------
(* EosClient.shutdown and Platform::Shutdown.                              *)

\* Mutation: the notifications of connections are forgotten.
ClearNotifications_LobbyOnly ==
  g_notification' = g_notification \ {"lobby"} /\ g_local_user' = Nobody

\* lobby::ClearNotifications and p2p::ClearNotifications leave the notification
\* of connect.cc alone.
ClearNotifications ==
  /\ g_notification' = g_notification \ {"lobby", "p2p"}
  /\ g_local_user' = Nobody

\* Without a platform, shutdown() only drops the sink.
NothingToRelease ==
  /\ ~platform
  /\ SetEventSink(Nobody)
  /\ UNCHANGED <<g_notification, g_local_user, misuse>>
  /\ StaysInJs

\* EOS_Platform_Release is called while `platform` is still set.
StartRelease(c) ==
  /\ platform
  /\ ClearNotifications
  /\ CallSdk("EOS_Platform_Release",
             library = "ours" /\ \A i \in DOMAIN calls : calls[i].what # "release")
  /\ Enter("release", c)
  /\ UNCHANGED emitter

ClientShutdown(c) ==
  /\ JsRuns
  /\ tickTimer' = [tickTimer EXCEPT ![c] = FALSE]
  /\ NothingToRelease \/ StartRelease(c)
  /\ UNCHANGED <<initialized, platform, shut_down, lostTimer, library, frame,
                 exception>>

\* The rest of Platform::Shutdown.
ReleaseReturns ==
  /\ Leave("release")
  /\ platform' = FALSE
  /\ CallSdk("EOS_Shutdown", library = "ours")
  /\ library' = "down"
  /\ shut_down' = TRUE
  /\ SetEventSink(Nobody)
  /\ UNCHANGED <<initialized, timerVars, g_local_user, g_notification, frame,
                 reentered>>

-----------------------------------------------------------------------------
(* p2p.configure: the native half sets the user before watchConnections    *)
(* finds out that there is no platform.  The SDK adds no notification for  *)
(* no user.                                                                *)

ClientConfigure(u) ==
  /\ JsRuns
  /\ g_local_user' = u
  /\ g_notification' =
       IF platform /\ u # Nobody THEN g_notification \cup {"p2p"}
       ELSE g_notification
  /\ reentered' = (reentered \/ (platform /\ calls # << >>))
  /\ UNCHANGED <<stateVars, timerVars, library, misuse, frame, calls, listening,
                 exception>>

-----------------------------------------------------------------------------
(* The tick.                                                               *)

\* Mutation: an interval ticks only while its own client has the sink.
Tick_OwnSink(c) ==
  /\ frame = "loop" /\ calls = << >>
  /\ tickTimer[c] /\ emitter = c
  /\ platform
  /\ frame' = "tick"
  /\ UNCHANGED <<stateVars, timerVars, g_local_user, g_notification, library,
                 misuse, callVars, listening, exception>>

\* The callback of an interval.  Without a platform tick() returns at once.
Tick(c) ==
  /\ frame = "loop" /\ calls = << >>
  /\ tickTimer[c] \/ lostTimer
  /\ platform
  /\ frame' = "tick"
  /\ CallSdk("EOS_Platform_Tick", library = "ours")
  /\ UNCHANGED <<stateVars, timerVars, g_local_user, g_notification, library,
                 callVars, listening, exception>>

\* What EOS_Platform_Tick may call, each through EmitEvent: the log callback,
\* and the callbacks of the notifications that were added, one group each.
LogCallback == library = "ours" /\ CallsListeners
OnAuthExpiration == "auth" \in g_notification /\ CallsListeners
OnLobbyEvent == "lobby" \in g_notification /\ CallsListeners
OnConnectionEvent == "p2p" \in g_notification /\ CallsListeners

SdkEvent ==
  /\ frame = "tick" /\ NativeRuns
  /\ platform
  /\ LogCallback \/ OnAuthExpiration \/ OnLobbyEvent \/ OnConnectionEvent
  /\ listening' = TRUE
  /\ UNCHANGED <<stateVars, timerVars, g_local_user, g_notification, library,
                 misuse, frame, callVars, exception>>

\* The SDK logs while it creates or releases the platform.
SdkLogs ==
  /\ SdkRuns
  /\ LogCallback
  /\ listening' = TRUE
  /\ UNCHANGED <<stateVars, timerVars, g_local_user, g_notification, library,
                 misuse, frame, callVars, exception>>

\* The listeners return.  An exception stays pending in the native frame: the
\* addon clears it and throws it again.
ListenerReturns ==
  /\ listening
  /\ listening' = FALSE
  /\ exception' \in {FALSE, ListenersMayThrow}
  /\ UNCHANGED <<stateVars, timerVars, g_local_user, g_notification, library,
                 misuse, frame, callVars>>

\* EOS_Platform_Tick returns and DrainPackets looks whether it has work.
SdkDone ==
  /\ frame = "tick" /\ NativeRuns
  /\ IF platform /\ g_local_user # Nobody /\ emitter # Nobody
     THEN frame' = "drain" /\ UNCHANGED exception
     ELSE frame' = "loop" /\ exception' = FALSE
  /\ UNCHANGED <<stateVars, timerVars, g_local_user, g_notification, library,
                 misuse, callVars, listening>>

\* One turn of the loop of DrainPackets, with the handle it took at its start.
DrainPacket ==
  /\ frame = "drain" /\ NativeRuns
  /\ platform                       \* a released platform has no packet
  /\ listening' = CallsListeners
  /\ UNCHANGED <<stateVars, timerVars, g_local_user, g_notification, library,
                 misuse, frame, callVars, exception>>

\* The queue is empty, or its next packet cannot be received: DrainPackets
\* returns, and the tick is over.  The interval's callback catches what was thrown
\* and emits it as 'error'.
DrainEnd ==
  /\ frame = "drain" /\ NativeRuns
  /\ CallSdk("EOS_P2P", platform)
  /\ frame' = "loop"
  /\ exception' = FALSE
  /\ UNCHANGED <<stateVars, timerVars, g_local_user, g_notification, library,
                 callVars, listening>>

\* The cap was reached: DrainPackets says so, in an event, and returns without
\* looking at the queue again.
DrainCapped ==
  /\ frame = "drain" /\ NativeRuns
  /\ frame' = "backlog"
  /\ listening' = CallsListeners
  /\ UNCHANGED <<stateVars, timerVars, g_local_user, g_notification, library,
                 misuse, callVars, exception>>

BacklogReported ==
  /\ frame = "backlog" /\ NativeRuns
  /\ frame' = "loop"
  /\ exception' = FALSE
  /\ UNCHANGED <<stateVars, timerVars, g_local_user, g_notification, library,
                 misuse, callVars, listening>>

-----------------------------------------------------------------------------
PlatformNext ==
  \/ \E c \in Clients : ClientInit(c) \/ ClientShutdown(c) \/ Tick(c)
  \/ \E u \in Users \cup {Nobody} : ClientConfigure(u)
  \/ CreateReturns \/ ReleaseReturns \/ SdkLogs
  \/ SdkEvent \/ ListenerReturns \/ SdkDone \/ DrainPacket \/ DrainEnd
  \/ DrainCapped \/ BacklogReported

PlatformSpec == PlatformInit /\ [][PlatformNext]_platformVars

-----------------------------------------------------------------------------
(* Properties.                                                             *)

\* Whatever the clients do, in and out of listeners, EOS_Initialize succeeds at
\* most once and is never called after EOS_Shutdown; and a platform is ticked and
\* released only while the library is up, once, unless a log listener called back
\* into the SDK while it was creating or releasing the platform, which the look
\* at the two flags in Platform::Init and Shutdown does not guard (eosjs.h:30-34).
\* Polling for packets is stated apart, in NoPollAfterShutdown.
SdkContract ==
  /\ "EOS_Initialize" \notin misuse
  /\ ~reentered =>
       /\ misuse \subseteq {"EOS_P2P"}
       /\ platform => library = "ours" /\ initialized /\ ~shut_down

\* The lobby and P2P notifications never outlive the platform they were added
\* to: Shutdown removes them while it still has the handle, and no listener that
\* EOS_Platform_Release calls adds one again.
NotificationsCleared ==
  ~platform /\ ~reentered => g_notification \subseteq {"auth"}

\* However many clients try, and wherever an init() throws halfway, one interval
\* ticks the platform: only an init() that a log listener calls inside another
\* one's EOS_Platform_Create starts a second.
OneTickLoop ==
  ~reentered =>
    /\ \A c, d \in Clients : tickTimer[c] /\ tickTimer[d] => c = d
    /\ ~lostTimer

\* p2p.cc:63-64: "Tells the tick loop which user to drain packets for.  Until
\* this is called, DrainPackets is a no-op": shutdown takes the user and the
\* platform away, and then nothing polls the P2P interface.
NoPollAfterShutdown == "EOS_P2P" \notin misuse
=============================================================================
