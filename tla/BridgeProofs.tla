---------------------------- MODULE BridgeProofs ----------------------------
(***************************************************************************)
(* Safety of the callback-to-promise bridge, for any set of requests, and  *)
(* that it implements module Promises.                                     *)
(*                                                                         *)
(* Three links carry the argument: an allocated op belongs to exactly one  *)
(* pending promise; what the SDK has in flight is what is allocated, until *)
(* the platform is released; and a search handle is owned exactly while    *)
(* its Find op is allocated.                                               *)
(***************************************************************************)
EXTENDS Bridge, PlatformProofs

\* Before init there is no op; after shutdown none is in flight.
NoOpWithoutPlatform ==
  ~platform /\ ~reentered => inflight = {} /\ (~shut_down => heap = {})

NeverSettledTwice == \A r \in Requests : promise[r] # "settled twice"

\* A request that has not been made has no op and was not refused.
UnusedIsClean == \A r \in Requests : promise[r] = "none" => r \notin refused

BridgeInv ==
  /\ PlatformInv
  /\ BridgeTypeOK
  /\ NoUseAfterFree
  /\ NoOpLeak
  /\ NoOpWithoutPlatform
  /\ OneOpPerPendingPromise
  /\ NeverSettledTwice
  /\ UnusedIsClean
  /\ HandlesAccountedFor

LEMMA BridgeInitInv == BridgeInit => BridgeInv
  BY PlatformInitInv
     DEF BridgeInit, BridgeInv, BridgeTypeOK, NoUseAfterFree, NoOpLeak,
         NoOpWithoutPlatform, OneOpPerPendingPromise, NeverSettledTwice,
         UnusedIsClean, HandlesAccountedFor, PromiseStates, HandleStates,
         PlatformInv

\* What a step of the platform does to the flags that the ops depend on.
LEMMA FlagsStep ==
  ASSUME PlatformInv, PlatformStep
  PROVE  /\ shut_down' = shut_down
         /\ reentered => reentered'
         /\ shut_down => reentered' = reentered
         /\ \/ platform' = platform
            \/ reentered'
            \/ ~platform /\ ~shut_down /\ platform'
<1> USE DEF PlatformInv, TypeOK, Undisturbed, OneCall
<1>1. ASSUME NEW c \in Clients, ClientInit(c)
      PROVE  /\ shut_down' = shut_down /\ platform' = platform
             /\ reentered => reentered'
             /\ shut_down => reentered' = reentered
  BY <1>1 DEF ClientInit, InitRefused, InitializeFails, StartCreate, MayInit,
              StaysInJs, Enter, callVars
<1>2. ASSUME NEW c \in Clients, ClientShutdown(c)
      PROVE  /\ shut_down' = shut_down /\ platform' = platform
             /\ reentered => reentered'
             /\ shut_down => reentered' = reentered
  BY <1>2 DEF ClientShutdown, NothingToRelease, StartRelease, StaysInJs, Enter,
              callVars
<1>3. ASSUME NEW u \in Users \cup {Nobody}, ClientConfigure(u)
      PROVE  /\ shut_down' = shut_down /\ platform' = platform
             /\ reentered => reentered'
             /\ shut_down => reentered' = reentered
  BY <1>3 DEF ClientConfigure, stateVars
<1>4. CASE CreateReturns
  <2>1. /\ calls # << >> /\ calls[1].what = "create"
        /\ shut_down' = shut_down /\ reentered' = reentered
        /\ platform' \in BOOLEAN
    BY <1>4, LeaveCalls DEF CreateReturns
  <2> QED
    BY <2>1
<1>5. ASSUME UNCHANGED <<stateVars, callVars>>
      PROVE  /\ shut_down' = shut_down /\ platform' = platform
             /\ reentered' = reentered
  BY <1>5 DEF stateVars, callVars
<1>6. ASSUME NEW c \in Clients, Tick(c) PROVE UNCHANGED <<stateVars, callVars>>
  BY <1>6 DEF Tick
<1>7. CASE \/ SdkLogs \/ SdkEvent \/ ListenerReturns \/ SdkDone
           \/ DrainPacket \/ DrainEnd \/ DrainCapped \/ BacklogReported
  <2>1. UNCHANGED <<stateVars, callVars>>
    BY <1>7 DEF SdkLogs, SdkEvent, ListenerReturns, SdkDone, DrainPacket,
                DrainEnd, DrainCapped, BacklogReported
  <2> QED
    BY <1>5, <2>1
<1> QED
  BY <1>1, <1>2, <1>3, <1>4, <1>5, <1>6, <1>7 DEF PlatformStep

\* The two effects a method has on ops and promises.
LEMMA FailsAtOnceInv ==
  ASSUME BridgeInv, platformVars' = platformVars, NEW r \in Requests,
         promise[r] = "none",
         NEW outcome \in {"threw", "rejected"}, FailsAtOnce(r, outcome)
  PROVE  /\ heap' = heap /\ inflight' = inflight /\ refused' = refused
         /\ promise' \in [Requests -> PromiseStates]
         /\ OneOpPerPendingPromise' /\ NeverSettledTwice' /\ UnusedIsClean'
  BY DEF BridgeInv, BridgeTypeOK, FailsAtOnce, OneOpPerPendingPromise,
         NeverSettledTwice, UnusedIsClean, PromiseStates, Ops

LEMMA StartInv ==
  ASSUME BridgeInv, NEW r \in Requests, promise[r] = "none",
         NEW op \in OpNames, Start(r, op)
  PROVE  /\ heap' = heap \cup {<<r, op>>}
         /\ inflight' = inflight \cup {<<r, op>>}
         /\ refused' = refused
         /\ promise' \in [Requests -> PromiseStates]
         /\ heap' \subseteq Ops /\ inflight' \subseteq Ops
         /\ \A n \in OpNames : <<r, n>> \notin heap
         /\ OneOpPerPendingPromise' /\ NeverSettledTwice' /\ UnusedIsClean'
<1> USE DEF BridgeInv, BridgeTypeOK
<1>1. /\ heap' = heap \cup {<<r, op>>}
      /\ inflight' = inflight \cup {<<r, op>>}
      /\ refused' = refused
      /\ promise' = [promise EXCEPT ![r] = "pending"]
  BY DEF Start
<1>2. \A x \in heap : x[1] # r
  BY DEF OneOpPerPendingPromise
<1>3. \A n \in OpNames : <<r, n>> \notin heap
  BY <1>2
<1>4. OneOpPerPendingPromise'
  BY <1>1, <1>2 DEF OneOpPerPendingPromise, UnusedIsClean, Ops
<1>5. <<r, op>> \in Ops
  BY DEF Ops
<1>6. heap' \subseteq Ops /\ inflight' \subseteq Ops
  BY <1>1, <1>5
<1>7. promise' \in [Requests -> PromiseStates]
  BY <1>1 DEF PromiseStates
<1>8. NeverSettledTwice' /\ UnusedIsClean'
  BY <1>1 DEF NeverSettledTwice, UnusedIsClean
<1> QED
  BY <1>1, <1>3, <1>4, <1>6, <1>7, <1>8

\* The two effects a terminal callback has on ops and promises.
LEMMA FinishInv ==
  ASSUME BridgeInv, NEW r \in Requests, NEW op \in OpNames, <<r, op>> \in heap,
         NEW outcome \in {"resolved", "rejected"}, Finish(r, op, outcome)
  PROVE  /\ heap' = heap \ {<<r, op>>}
         /\ refused' \subseteq Requests
         /\ promise' \in [Requests -> PromiseStates]
         /\ OneOpPerPendingPromise' /\ NeverSettledTwice' /\ UnusedIsClean'
<1> USE DEF BridgeInv, BridgeTypeOK
<1>1. heap' = heap \ {<<r, op>>}
  BY DEF Finish
<1>2. promise[r] = "pending" /\ r \notin refused
  BY DEF OneOpPerPendingPromise
<1>3. \A x \in heap' : x[1] # r
  <2> SUFFICES ASSUME NEW x \in heap', x[1] = r PROVE FALSE
    OBVIOUS
  <2>1. x = <<r, op>>
    BY <1>1 DEF OneOpPerPendingPromise
  <2> QED
    BY <1>1, <2>1
<1>4. CASE exception
  <2>1. refused' = refused \cup {r} /\ promise' = promise
    BY <1>4 DEF Finish, Settle
  <2>2. OneOpPerPendingPromise'
    <3>1. ASSUME NEW q \in Requests, promise'[q] = "pending"
          PROVE  q \in refused' \/ \E n \in OpNames : <<q, n>> \in heap'
      BY <1>1, <2>1, <3>1 DEF OneOpPerPendingPromise
    <3>2. \A x \in heap' : promise'[x[1]] = "pending" /\ x[1] \notin refused'
      BY <1>1, <1>3, <2>1 DEF OneOpPerPendingPromise
    <3> QED
      BY <1>1, <3>1, <3>2 DEF OneOpPerPendingPromise
  <2> QED
    BY <1>1, <1>2, <2>1, <2>2 DEF NeverSettledTwice, UnusedIsClean
<1>5. CASE ~exception
  <2>1. refused' = refused /\ promise' = [promise EXCEPT ![r] = outcome]
    BY <1>2, <1>5 DEF Finish, Settle
  <2>2. OneOpPerPendingPromise'
    <3>1. ASSUME NEW q \in Requests, promise'[q] = "pending"
          PROVE  q \in refused' \/ \E n \in OpNames : <<q, n>> \in heap'
      BY <1>1, <2>1, <3>1 DEF OneOpPerPendingPromise
    <3>2. \A x \in heap' : promise'[x[1]] = "pending" /\ x[1] \notin refused'
      BY <1>1, <1>3, <2>1 DEF OneOpPerPendingPromise
    <3> QED
      BY <1>1, <3>1, <3>2 DEF OneOpPerPendingPromise
  <2> QED
    BY <1>1, <2>1, <2>2 DEF NeverSettledTwice, UnusedIsClean, PromiseStates
<1> QED
  BY <1>4, <1>5

LEMMA AdoptInv ==
  ASSUME BridgeInv, NEW r \in Requests, NEW op \in OpNames, <<r, op>> \in heap,
         NEW next \in OpNames, Adopt(r, op, next)
  PROVE  /\ heap' = (heap \ {<<r, op>>}) \cup {<<r, next>>}
         /\ refused' = refused
         /\ promise' = promise
         /\ OneOpPerPendingPromise' /\ NeverSettledTwice' /\ UnusedIsClean'
<1> USE DEF BridgeInv, BridgeTypeOK
<1>1. /\ heap' = (heap \ {<<r, op>>}) \cup {<<r, next>>}
      /\ refused' = refused /\ promise' = promise
  BY DEF Adopt
<1>2. \A x \in heap : x[1] = r => x = <<r, op>>
  BY DEF OneOpPerPendingPromise
<1>3. ASSUME NEW q \in Requests, promise'[q] = "pending"
      PROVE  q \in refused' \/ \E n \in OpNames : <<q, n>> \in heap'
  BY <1>1, <1>3 DEF OneOpPerPendingPromise
<1>4. \A x \in heap' : promise'[x[1]] = "pending" /\ x[1] \notin refused'
  BY <1>1 DEF OneOpPerPendingPromise
<1>5. \A x, y \in heap' : x[1] = y[1] => x = y
  BY <1>1, <1>2 DEF OneOpPerPendingPromise
<1> QED
  BY <1>1, <1>3, <1>4, <1>5 DEF OneOpPerPendingPromise, NeverSettledTwice, UnusedIsClean

\* A step that leaves the platform alone keeps its invariant.
LEMMA PlatformUnchanged ==
  ASSUME PlatformInv, UNCHANGED platformVars
  PROVE  PlatformInv'
  BY PlatformNextInv

LEMMA StartHandles ==
  ASSUME BridgeInv, NEW r \in Requests, promise[r] = "none",
         NEW op \in OpNames \ {"Find", "JoinLobby"}, Start(r, op),
         UNCHANGED <<search, details>>,
         \/ UNCHANGED modification
         \/ modification' = Released(Copied(modification, r), r)
  PROVE  /\ HandlesAccountedFor'
         /\ modification' \in [Requests -> HandleStates]
<1> USE DEF BridgeInv, BridgeTypeOK
<1>1. heap' = heap \cup {<<r, op>>}
  BY StartInv
<1>2. /\ modification' \in [Requests -> HandleStates]
      /\ \A q \in Requests : modification'[q] \notin {"owned", "released twice"}
  BY DEF HandlesAccountedFor, Released, Copied, HandleStates
<1> QED
  BY <1>1, <1>2 DEF HandlesAccountedFor

LEMMA CallApiInv ==
  ASSUME BridgeInv, NEW r \in Requests, NEW api \in Apis, CallApi(r, api)
  PROVE  BridgeInv'
<1> USE BridgeAssumption
<1>1. /\ promise[r] = "none" /\ platform /\ platform' = platform
      /\ reentered' = reentered
  BY DEF CallApi, platformVars, stateVars, callVars
<1>2. PlatformInv' /\ TypeOK'
  BY PlatformUnchanged DEF BridgeInv, CallApi, PlatformInv
<1>3. ASSUME /\ handleVars' = handleVars
             /\ \E outcome \in {"threw", "rejected"} : FailsAtOnce(r, outcome)
      PROVE  BridgeInv'
  <2>1. PICK outcome \in {"threw", "rejected"} : FailsAtOnce(r, outcome)
    BY <1>3
  <2>2. /\ heap' = heap /\ inflight' = inflight /\ refused' = refused
        /\ promise' \in [Requests -> PromiseStates]
        /\ OneOpPerPendingPromise' /\ NeverSettledTwice' /\ UnusedIsClean'
    BY <1>1, <2>1, FailsAtOnceInv DEF CallApi
  <2> QED
    BY <1>1, <1>2, <1>3, <2>2
       DEF BridgeInv, BridgeTypeOK, handleVars, NoUseAfterFree, NoOpLeak,
           NoOpWithoutPlatform, HandlesAccountedFor
<1>4. ASSUME NEW h \in {"search", "modification"},
             \E outcome \in {"threw", "rejected"} : FailsAtOnce(r, outcome),
             details' = details,
             h = "search" => /\ search' = Released(Copied(search, r), r)
                             /\ modification' = modification,
             h = "modification" =>
                /\ modification' = Released(Copied(modification, r), r)
                /\ search' = search
      PROVE  BridgeInv'
  <2>1. PICK outcome \in {"threw", "rejected"} : FailsAtOnce(r, outcome)
    BY <1>4
  <2>2. /\ heap' = heap /\ inflight' = inflight /\ refused' = refused
        /\ promise' \in [Requests -> PromiseStates]
        /\ OneOpPerPendingPromise' /\ NeverSettledTwice' /\ UnusedIsClean'
    BY <1>1, <2>1, FailsAtOnceInv DEF CallApi
  <2>3. <<r, "Find">> \notin heap
    BY <1>1 DEF BridgeInv, OneOpPerPendingPromise
  <2>4. CASE h = "search"
    <3>1. search' = [search EXCEPT ![r] = "released"]
      BY <1>4, <2>4 DEF Released, Copied, BridgeInv, BridgeTypeOK
    <3>2. HandlesAccountedFor'
      BY <1>4, <2>2, <2>3, <2>4, <3>1 DEF BridgeInv, BridgeTypeOK, HandlesAccountedFor
    <3> QED
      BY <1>1, <1>2, <1>4, <2>2, <2>4, <3>1, <3>2
         DEF BridgeInv, BridgeTypeOK, NoUseAfterFree, NoOpLeak,
             NoOpWithoutPlatform, HandleStates
  <2>5. CASE h = "modification"
    <3>1. modification' = [modification EXCEPT ![r] = "released"]
      BY <1>4, <2>5 DEF Released, Copied, BridgeInv, BridgeTypeOK
    <3>2. HandlesAccountedFor'
      BY <1>4, <2>2, <2>5, <3>1 DEF BridgeInv, BridgeTypeOK, HandlesAccountedFor
    <3> QED
      BY <1>1, <1>2, <1>4, <2>2, <2>5, <3>1, <3>2
         DEF BridgeInv, BridgeTypeOK, NoUseAfterFree, NoOpLeak,
             NoOpWithoutPlatform, HandleStates
  <2> QED
    BY <2>4, <2>5
<1>5. ASSUME NEW op \in OpNames \ {"Find", "JoinLobby"}, Start(r, op),
             UNCHANGED <<search, details>>,
             \/ UNCHANGED modification
             \/ modification' = Released(Copied(modification, r), r)
      PROVE  BridgeInv'
  <2>1. HandlesAccountedFor' /\ modification' \in [Requests -> HandleStates]
    BY <1>1, <1>5, StartHandles
  <2>2. /\ heap' = heap \cup {<<r, op>>}
        /\ inflight' = inflight \cup {<<r, op>>}
        /\ refused' = refused
        /\ promise' \in [Requests -> PromiseStates]
        /\ heap' \subseteq Ops /\ inflight' \subseteq Ops
        /\ OneOpPerPendingPromise' /\ NeverSettledTwice' /\ UnusedIsClean'
    BY <1>1, <1>5, StartInv
  <2> QED
    BY <1>1, <1>2, <1>5, <2>1, <2>2
       DEF BridgeInv, BridgeTypeOK, NoUseAfterFree, NoOpLeak, NoOpWithoutPlatform
<1>6. CASE StartSimple(r, api)
  <2>1. \/ FailsAtOnce(r, "threw")
        \/ \E op \in OpNames \ {"Find", "JoinLobby"} : Start(r, op)
    BY <1>6 DEF StartSimple, Login, CreateDeviceId, CreateLobby, LeaveLobby,
                SendInvite, OpNames
  <2> QED
    BY <1>3, <1>5, <1>6, <2>1 DEF StartSimple, handleVars
<1>7. CASE api = "join" /\ StartJoin(r)
  <2>1. CASE Start(r, "Find") /\ search' = Copied(search, r)
    <3>1. /\ heap' = heap \cup {<<r, "Find">>}
          /\ inflight' = inflight \cup {<<r, "Find">>}
          /\ refused' = refused
          /\ promise' \in [Requests -> PromiseStates]
          /\ heap' \subseteq Ops /\ inflight' \subseteq Ops
          /\ OneOpPerPendingPromise' /\ NeverSettledTwice' /\ UnusedIsClean'
      BY <1>1, <2>1, StartInv DEF OpNames
    <3>2. /\ search' = [search EXCEPT ![r] = "owned"]
          /\ details' = details /\ modification' = modification
      BY <1>7, <2>1 DEF StartJoin, Copied
    <3>3. HandlesAccountedFor'
      BY <3>1, <3>2 DEF BridgeInv, BridgeTypeOK, HandlesAccountedFor
    <3> QED
      BY <1>1, <1>2, <3>1, <3>2, <3>3
         DEF BridgeInv, BridgeTypeOK, NoUseAfterFree, NoOpLeak,
             NoOpWithoutPlatform, HandleStates
  <2> QED
    BY <1>3, <1>4, <1>7, <2>1 DEF StartJoin, handleVars
<1>8. CASE api = "setAttributes" /\ StartSetAttributes(r)
  BY <1>3, <1>4, <1>5, <1>8 DEF StartSetAttributes, handleVars, OpNames
<1> QED
  BY <1>6, <1>7, <1>8 DEF CallApi

\* The part of the invariant that a terminal callback decides by itself.
CallerInv ==
  /\ promise \in [Requests -> PromiseStates]
  /\ heap \subseteq Ops
  /\ refused \subseteq Requests
  /\ search \in [Requests -> HandleStates]
  /\ details \in [Requests -> HandleStates]
  /\ modification \in [Requests -> HandleStates]
  /\ OneOpPerPendingPromise
  /\ NeverSettledTwice
  /\ UnusedIsClean
  /\ HandlesAccountedFor

\* The op goes, or leaves its place to the next one.
Leaves(r, op) ==
  \/ heap' = heap \ {<<r, op>>}
  \/ \E next \in OpNames \ {op} : heap' = (heap \ {<<r, op>>}) \cup {<<r, next>>}

\* Settlers that own no handle.
LEMMA QuietSettlerInv ==
  ASSUME BridgeInv, NEW r \in Requests,
         NEW op \in OpNames \ {"Find", "JoinLobby"}, <<r, op>> \in heap,
         UNCHANGED handleVars,
         \/ \E outcome \in {"resolved", "rejected"} : Finish(r, op, outcome)
         \/ op = "Login" /\ Adopt(r, op, "CreateUser")
  PROVE  CallerInv' /\ Leaves(r, op)
<1> USE DEF BridgeInv, BridgeTypeOK, handleVars
<1>1. CASE \E outcome \in {"resolved", "rejected"} : Finish(r, op, outcome)
  <2>1. /\ heap' = heap \ {<<r, op>>}
        /\ refused' \subseteq Requests
        /\ promise' \in [Requests -> PromiseStates]
        /\ OneOpPerPendingPromise' /\ NeverSettledTwice' /\ UnusedIsClean'
    BY <1>1, FinishInv
  <2>2. HandlesAccountedFor'
    BY <2>1 DEF HandlesAccountedFor
  <2> QED
    BY <2>1, <2>2 DEF CallerInv, Leaves
<1>2. CASE op = "Login" /\ Adopt(r, op, "CreateUser")
  <2>1. /\ heap' = (heap \ {<<r, op>>}) \cup {<<r, "CreateUser">>}
        /\ refused' = refused
        /\ promise' = promise
        /\ OneOpPerPendingPromise' /\ NeverSettledTwice' /\ UnusedIsClean'
    BY <1>2, AdoptInv DEF OpNames
  <2>2. HandlesAccountedFor'
    BY <2>1 DEF HandlesAccountedFor
  <2>3. heap' \subseteq Ops
    BY <2>1 DEF Ops, OpNames
  <2> QED
    BY <1>2, <2>1, <2>2, <2>3 DEF CallerInv, Leaves, OpNames
<1> QED
  BY <1>1, <1>2

LEMMA FindSettlerInv ==
  ASSUME BridgeInv, NEW r \in Requests, <<r, "Find">> \in heap, NEW result,
         FindSettler(r, result)
  PROVE  CallerInv' /\ Leaves(r, "Find")
<1> USE DEF BridgeInv, BridgeTypeOK
<1>1. /\ search' = [search EXCEPT ![r] = "released"]
      /\ modification' = modification
  BY DEF FindSettler, SearchReleased, Released, HandlesAccountedFor
<1>2. \A x \in heap : x[1] = r => x = <<r, "Find">>
  BY DEF OneOpPerPendingPromise
<1>3. CASE Finish(r, "Find", "rejected") /\ UNCHANGED details
  <2>1. /\ heap' = heap \ {<<r, "Find">>}
        /\ refused' \subseteq Requests
        /\ promise' \in [Requests -> PromiseStates]
        /\ OneOpPerPendingPromise' /\ NeverSettledTwice' /\ UnusedIsClean'
    BY <1>3, FinishInv DEF OpNames
  <2>2. HandlesAccountedFor'
    BY <1>1, <1>3, <2>1 DEF HandlesAccountedFor
  <2> QED
    BY <1>1, <1>3, <2>1, <2>2 DEF CallerInv, Leaves, HandleStates
<1>4. CASE Adopt(r, "Find", "JoinLobby") /\ details' = Copied(details, r)
  <2>1. /\ heap' = (heap \ {<<r, "Find">>}) \cup {<<r, "JoinLobby">>}
        /\ refused' = refused
        /\ promise' = promise
        /\ OneOpPerPendingPromise' /\ NeverSettledTwice' /\ UnusedIsClean'
    BY <1>4, AdoptInv DEF OpNames
  <2>2. details' = [details EXCEPT ![r] = "owned"]
    BY <1>4 DEF Copied
  <2>3. HandlesAccountedFor'
    <3> SUFFICES ASSUME NEW q \in Requests
                 PROVE  /\ search'[q] = "owned" <=> <<q, "Find">> \in heap'
                        /\ <<q, "JoinLobby">> \in heap' => details'[q] = "owned"
                        /\ modification'[q] # "owned"
                        /\ "released twice" \notin
                              {search'[q], details'[q], modification'[q]}
      BY DEF HandlesAccountedFor
    <3>1. CASE q = r
      BY <1>1, <2>1, <2>2, <3>1 DEF HandlesAccountedFor
    <3>2. CASE q # r
      BY <1>1, <2>1, <2>2, <3>2 DEF HandlesAccountedFor
    <3> QED
      BY <3>1, <3>2
  <2>4. heap' \subseteq Ops
    BY <2>1 DEF Ops, OpNames
  <2> QED
    BY <1>1, <2>1, <2>2, <2>3, <2>4 DEF CallerInv, Leaves, HandleStates, OpNames
<1> QED
  BY <1>3, <1>4 DEF FindSettler

LEMMA JoinLobbySettleInv ==
  ASSUME BridgeInv, NEW r \in Requests, <<r, "JoinLobby">> \in heap, NEW result,
         JoinLobbySettle(r, result)
  PROVE  CallerInv' /\ Leaves(r, "JoinLobby")
<1> USE DEF BridgeInv, BridgeTypeOK
<1>1. PICK outcome \in {"resolved", "rejected"} : Finish(r, "JoinLobby", outcome)
  BY DEF JoinLobbySettle
<1>2. /\ heap' = heap \ {<<r, "JoinLobby">>}
      /\ refused' \subseteq Requests
      /\ promise' \in [Requests -> PromiseStates]
      /\ OneOpPerPendingPromise' /\ NeverSettledTwice' /\ UnusedIsClean'
  BY <1>1, FinishInv DEF OpNames
<1>3. /\ search' = search /\ modification' = modification
      /\ details' = details \/ details' = [details EXCEPT ![r] = "released"]
  BY DEF JoinLobbySettle, Released, HandlesAccountedFor
<1>4. HandlesAccountedFor'
  <2> SUFFICES ASSUME NEW q \in Requests
               PROVE  /\ search'[q] = "owned" <=> <<q, "Find">> \in heap'
                      /\ <<q, "JoinLobby">> \in heap' => details'[q] = "owned"
                      /\ modification'[q] # "owned"
                      /\ "released twice" \notin
                            {search'[q], details'[q], modification'[q]}
    BY DEF HandlesAccountedFor
  <2>1. CASE q = r
    BY <1>2, <1>3, <2>1 DEF HandlesAccountedFor
  <2>2. CASE q # r
    BY <1>2, <1>3, <2>2 DEF HandlesAccountedFor
  <2> QED
    BY <2>1, <2>2
<1> QED
  BY <1>2, <1>3, <1>4 DEF CallerInv, Leaves, HandleStates

LEMMA SettleOpInv ==
  ASSUME BridgeInv, NEW r \in Requests, NEW op \in OpNames, <<r, op>> \in heap,
         NEW result, SettleOp(r, op, result)
  PROVE  CallerInv' /\ Leaves(r, op)
<1>1. CASE op = "Login" /\ LoginSettler(r, result)
  BY <1>1, QuietSettlerInv DEF LoginSettler
<1>2. CASE op = "CreateDeviceId" /\ CreateDeviceIdSettler(r, result)
  BY <1>2, QuietSettlerInv DEF CreateDeviceIdSettler
<1>3. CASE op = "Find" /\ FindSettler(r, result)
  BY <1>3, FindSettlerInv
<1>4. CASE op = "JoinLobby" /\ JoinLobbySettle(r, result)
  BY <1>4, JoinLobbySettleInv
<1>5. CASE /\ op \notin {"Login", "CreateDeviceId", "Find", "JoinLobby"}
           /\ DefaultSettle(r, op, result)
  BY <1>5, QuietSettlerInv DEF DefaultSettle
<1> QED
  BY <1>1, <1>2, <1>3, <1>4, <1>5 DEF SettleOp

LEMMA CallbackInv ==
  ASSUME BridgeInv, NEW r \in Requests, NEW op \in OpNames,
         NEW result \in Results(op), Callback(r, op, result)
  PROVE  BridgeInv'
<1> USE DEF BridgeInv, BridgeTypeOK
<1>1. PlatformInv' /\ TypeOK'
  BY PlatformUnchanged DEF Callback, PlatformInv
<1>2. /\ platform /\ platform' = platform /\ reentered' = reentered
      /\ <<r, op>> \in inflight /\ <<r, op>> \in heap
  BY DEF Callback, platformVars, stateVars, callVars, NoUseAfterFree
<1>3. CASE IsOperationComplete(result)
  <2>1. CallerInv' /\ Leaves(r, op)
    BY <1>2, <1>3, SettleOpInv DEF Callback, OnComplete
  <2>2. inflight' = (inflight \ {<<r, op>>}) \cup (heap' \ heap)
    BY <1>3 DEF Callback
  <2>3. /\ inflight' \subseteq heap'
        /\ ~reentered => heap' \subseteq inflight'
    BY <1>2, <2>1, <2>2 DEF Leaves, NoUseAfterFree, NoOpLeak
  <2> QED
    BY <1>1, <1>2, <2>1, <2>3
       DEF CallerInv, NoUseAfterFree, NoOpLeak, NoOpWithoutPlatform
<1>4. CASE ~IsOperationComplete(result)
  <2>1. UNCHANGED <<promise, heap, refused, handleVars>>
    BY <1>4 DEF Callback, OnComplete
  <2>2. inflight' = inflight
    BY <1>4, <2>1 DEF Callback
  <2> QED
    BY <1>1, <1>2, <2>1, <2>2
       DEF handleVars, NoUseAfterFree, NoOpLeak, NoOpWithoutPlatform,
           OneOpPerPendingPromise, NeverSettledTwice, UnusedIsClean,
           HandlesAccountedFor
<1> QED
  BY <1>3, <1>4

LEMMA ReleasedInv ==
  ASSUME BridgeInv, PlatformReleased
  PROVE  BridgeInv'
<1> USE DEF BridgeInv, BridgeTypeOK
<1>1. PlatformInv' /\ TypeOK'
  BY ReleaseReturnsInv DEF PlatformReleased, PlatformInv
<1>2. /\ inflight' = {}
      /\ UNCHANGED <<promise, heap, refused, handleVars>>
      /\ platform' = FALSE
      /\ shut_down' = TRUE
  BY DEF PlatformReleased, ReleaseReturns
<1>3. /\ OneOpPerPendingPromise' /\ NeverSettledTwice' /\ UnusedIsClean'
      /\ HandlesAccountedFor'
  BY <1>2 DEF handleVars, OneOpPerPendingPromise, NeverSettledTwice,
              UnusedIsClean, HandlesAccountedFor
<1>4. NoUseAfterFree' /\ NoOpLeak' /\ NoOpWithoutPlatform'
  BY <1>2 DEF TypeOK, NoUseAfterFree, NoOpLeak, NoOpWithoutPlatform
<1> QED
  BY <1>1, <1>2, <1>3, <1>4 DEF handleVars

\* A step of the platform creates one only where no op is left over.
LEMMA PlatformStepInv ==
  ASSUME BridgeInv, PlatformStep
  PROVE  BridgeInv'
<1> USE DEF BridgeInv, BridgeTypeOK
<1>1. [PlatformNext]_platformVars
  BY DEF PlatformStep, PlatformNext
<1>2. PlatformInv' /\ TypeOK'
  BY <1>1, PlatformNextInv DEF PlatformInv
<1>3. UNCHANGED <<promise, heap, inflight, refused, handleVars>>
  BY DEF PlatformStep, bridgeVars
<1>4. /\ shut_down' = shut_down
      /\ reentered => reentered'
      /\ \/ platform' = platform
         \/ reentered'
         \/ ~platform /\ ~shut_down /\ platform'
  BY FlagsStep
<1>5. /\ OneOpPerPendingPromise' /\ NeverSettledTwice' /\ UnusedIsClean'
      /\ HandlesAccountedFor'
  BY <1>3 DEF handleVars, OneOpPerPendingPromise, NeverSettledTwice,
              UnusedIsClean, HandlesAccountedFor
<1>6. NoUseAfterFree' /\ NoOpLeak' /\ NoOpWithoutPlatform'
  BY <1>3, <1>4 DEF TypeOK, NoUseAfterFree, NoOpLeak, NoOpWithoutPlatform
<1> QED
  BY <1>2, <1>3, <1>5, <1>6 DEF handleVars

LEMMA BridgeNextInv == BridgeInv /\ [Next]_vars => BridgeInv'
<1> SUFFICES ASSUME BridgeInv, [Next]_vars PROVE BridgeInv'
  OBVIOUS
<1>1. CASE PlatformStep
  BY <1>1, PlatformStepInv
<1>2. CASE PlatformReleased
  BY <1>2, ReleasedInv
<1>3. ASSUME NEW r \in Requests, NEW api \in Apis, CallApi(r, api) PROVE BridgeInv'
  BY <1>3, CallApiInv
<1>4. ASSUME NEW r \in Requests, NEW op \in OpNames, NEW result \in Results(op),
             Callback(r, op, result)
      PROVE  BridgeInv'
  BY <1>4, CallbackInv
<1>5. CASE UNCHANGED vars
  <2>1. UNCHANGED platformVars /\ UNCHANGED bridgeVars /\ UNCHANGED handleVars
    BY <1>5 DEF vars, bridgeVars
  <2>2. PlatformInv' /\ TypeOK'
    BY <2>1, PlatformUnchanged DEF BridgeInv, PlatformInv
  <2> QED
    BY <2>1, <2>2
       DEF BridgeInv, BridgeTypeOK, platformVars, stateVars, callVars,
           bridgeVars, handleVars,
           NoUseAfterFree, NoOpLeak, NoOpWithoutPlatform,
           OneOpPerPendingPromise, NeverSettledTwice, UnusedIsClean,
           HandlesAccountedFor
<1> QED
  BY <1>1, <1>2, <1>3, <1>4, <1>5 DEF Next

LEMMA BridgeInvHolds == Spec => []BridgeInv
  BY BridgeInitInv, BridgeNextInv, PTL DEF Spec

-----------------------------------------------------------------------------

\* Every variable of the bridge keeps its type.
THEOREM BridgeTypeCorrect == Spec => []BridgeTypeOK
<1>1. BridgeInv => BridgeTypeOK
  BY DEF BridgeInv
<1> QED
  BY <1>1, BridgeInvHolds, PTL

\* No completion callback ever runs on a freed op (callbacks.h:70-81).
THEOREM NoUseAfterFreeHolds == Spec => []NoUseAfterFree
<1>1. BridgeInv => NoUseAfterFree
  BY DEF BridgeInv
<1> QED
  BY <1>1, BridgeInvHolds, PTL

\* No op outlives its callback while the platform lives (callbacks.h:19-22).
THEOREM NoOpLeakHolds == Spec => []NoOpLeak
<1>1. BridgeInv => NoOpLeak
  BY DEF BridgeInv
<1> QED
  BY <1>1, BridgeInvHolds, PTL

\* A pending promise always has its one op, unless an exception that a
\* listener threw in the same tick kept N-API from settling it.
THEOREM OneOpPerPendingPromiseHolds == Spec => []OneOpPerPendingPromise
<1>1. BridgeInv => OneOpPerPendingPromise
  BY DEF BridgeInv
<1> QED
  BY <1>1, BridgeInvHolds, PTL

\* Search and modification handles are released exactly once, and the details
\* handle is there as long as JoinLobby uses it (lobby.cc:251-306, 569-571).
THEOREM HandlesAccountedForHolds == Spec => []HandlesAccountedFor
<1>1. BridgeInv => HandlesAccountedFor
  BY DEF BridgeInv
<1> QED
  BY <1>1, BridgeInvHolds, PTL

-----------------------------------------------------------------------------
(* The bridge implements module Promises.                                  *)

\* What a caller sees of a terminal callback.
LEMMA SettleOpPromise ==
  ASSUME BridgeInv, NEW r \in Requests, NEW op \in OpNames, <<r, op>> \in heap,
         NEW result, SettleOp(r, op, result)
  PROVE  \/ promise' = promise
         \/ /\ promise[r] = "pending"
            /\ \E outcome \in {"resolved", "rejected"} :
                 promise' = [promise EXCEPT ![r] = outcome]
<1>1. promise[r] = "pending"
  BY DEF BridgeInv, OneOpPerPendingPromise
<1>2. \/ promise' = promise
      \/ \E n \in OpNames, outcome \in {"resolved", "rejected"} :
           Finish(r, n, outcome)
  BY DEF SettleOp, LoginSettler, CreateDeviceIdSettler, FindSettler,
         JoinLobbySettle, DefaultSettle, Adopt, OpNames
<1> QED
  BY <1>1, <1>2 DEF Finish, Settle, BridgeInv, BridgeTypeOK

LEMMA NextRefinesPromises == BridgeInv /\ [Next]_vars => [P!Next]_(P!vars)
<1> SUFFICES ASSUME BridgeInv, [Next]_vars PROVE [P!Next]_(P!vars)
  OBVIOUS
<1> USE DEF P!Next, P!vars
<1>1. CASE PlatformStep
  <2>1. promise' = promise
    BY <1>1 DEF PlatformStep, bridgeVars
  <2>2. (shut_down /\ ~reentered)' = (shut_down /\ ~reentered)
    BY <1>1, FlagsStep DEF BridgeInv, PlatformInv, TypeOK
  <2> QED
    BY <2>1, <2>2 DEF P!EnterOrLeaveTick
<1>2. CASE PlatformReleased
  <2>1. promise' = promise /\ frame' = frame
    BY <1>2 DEF PlatformReleased, ReleaseReturns
  <2>2. shut_down' = TRUE /\ reentered' = reentered
    BY <1>2 DEF PlatformReleased, ReleaseReturns
  <2>3. (shut_down /\ ~reentered)' \in {TRUE, shut_down /\ ~reentered}
    BY <2>2 DEF BridgeInv, PlatformInv, TypeOK
  <2> QED
    BY <2>1, <2>3 DEF P!End
<1>3. ASSUME NEW r \in Requests, NEW api \in Apis, CallApi(r, api)
      PROVE  [P!Next]_(P!vars)
  <2>1. /\ promise[r] = "none" /\ ~(shut_down /\ ~reentered)
        /\ UNCHANGED <<shut_down, reentered, frame>>
    BY <1>3 DEF CallApi, platformVars, stateVars, callVars, BridgeInv, PlatformInv,
                Undisturbed
  <2>2. \E outcome \in {"pending", "rejected", "threw"} :
          promise' = [promise EXCEPT ![r] = outcome]
    BY <1>3 DEF CallApi, StartSimple, Login, CreateDeviceId, CreateLobby,
                LeaveLobby, SendInvite, StartJoin, StartSetAttributes, Start,
                FailsAtOnce
  <2> QED
    BY <2>1, <2>2 DEF P!Call
<1>4. ASSUME NEW r \in Requests, NEW op \in OpNames, NEW result \in Results(op),
             Callback(r, op, result)
      PROVE  [P!Next]_(P!vars)
  <2>1. /\ frame = "tick" /\ ~(shut_down /\ ~reentered) /\ <<r, op>> \in heap
        /\ UNCHANGED <<shut_down, reentered, frame>>
    BY <1>4 DEF Callback, platformVars, stateVars, callVars, BridgeInv, PlatformInv,
                Undisturbed, NoUseAfterFree
  <2>2. \/ promise' = promise
        \/ /\ promise[r] = "pending"
           /\ \E outcome \in {"resolved", "rejected"} :
                promise' = [promise EXCEPT ![r] = outcome]
    BY <1>4, <2>1, SettleOpPromise DEF Callback, OnComplete
  <2> QED
    BY <2>1, <2>2 DEF P!Settle
<1>5. CASE UNCHANGED vars
  BY <1>5 DEF vars, platformVars, stateVars, callVars, bridgeVars
<1> QED
  BY <1>1, <1>2, <1>3, <1>4, <1>5 DEF Next

\* Whatever happens inside, a caller sees what module Promises says: a promise
\* is settled at most once, in a tick, and never after shutdown (unless a log
\* listener called back into the SDK while it created or released a platform).
THEOREM BridgeImplementsPromises == Spec => ImplementsPromises
<1>1. BridgeInit => P!Init
  BY DEF BridgeInit, PlatformInit, P!Init
<1> QED
  BY <1>1, BridgeInvHolds, NextRefinesPromises, PTL DEF Spec, ImplementsPromises, P!Spec

-----------------------------------------------------------------------------
(* What a join leaves behind.                                              *)

\* A request has at most one op, and none once it was refused or rejected.
LEMMA OnlyOp ==
  ASSUME BridgeInv, NEW r \in Requests, NEW op \in OpNames, <<r, op>> \in heap
  PROVE  /\ promise[r] = "pending" /\ r \notin refused
         /\ \A n \in OpNames : <<r, n>> \in heap => n = op
  BY DEF BridgeInv, OneOpPerPendingPromise

\* Methods that start.
LEMMA CallApiKeepsDetails ==
  ASSUME BridgeInv, DetailsKeptOnlyByFailedJoin,
         NEW r \in Requests, NEW api \in Apis, CallApi(r, api)
  PROVE  DetailsKeptOnlyByFailedJoin'
<1> USE DEF BridgeInv, BridgeTypeOK
<1>1. /\ promise[r] = "none" /\ details' = details /\ refused' = refused
      /\ heap \subseteq heap'
      /\ \A q \in Requests \ {r} : promise'[q] = promise[q]
  BY DEF CallApi, StartSimple, Login, CreateDeviceId, CreateLobby, LeaveLobby,
         SendInvite, StartJoin, StartSetAttributes, Start, FailsAtOnce, handleVars
<1>2. details[r] # "owned"
  BY <1>1 DEF DetailsKeptOnlyByFailedJoin, OneOpPerPendingPromise, UnusedIsClean
<1> QED
  BY <1>1, <1>2 DEF DetailsKeptOnlyByFailedJoin

\* What settling and adopting do to the other requests, and to the one they
\* are about.
LEMMA FinishOutcome ==
  ASSUME BridgeInv, NEW r \in Requests, NEW op \in OpNames, <<r, op>> \in heap,
         NEW outcome, Finish(r, op, outcome)
  PROVE  /\ \A q \in Requests \ {r} :
              promise'[q] = promise[q] /\ (q \in refused => q \in refused')
         /\ \A x \in heap : x[1] # r => x \in heap'
         /\ promise'[r] = outcome \/ r \in refused'
<1>1. promise \in [Requests -> PromiseStates] /\ promise[r] = "pending"
  BY OnlyOp DEF BridgeInv, BridgeTypeOK
<1> QED
  BY <1>1 DEF Finish, Settle

\* Settlers.  Only Find's copies the details, for the op that it starts.
LEMMA SettlerKeepsDetails ==
  ASSUME BridgeInv, DetailsKeptOnlyByFailedJoin,
         NEW r \in Requests, NEW op \in OpNames, <<r, op>> \in heap,
         NEW result, SettleOp(r, op, result)
  PROVE  DetailsKeptOnlyByFailedJoin'
<1> USE DEF BridgeInv, BridgeTypeOK
<1>1. op # "JoinLobby" => details[r] # "owned"
  BY OnlyOp DEF DetailsKeptOnlyByFailedJoin, OpNames
<1>2. ASSUME op # "JoinLobby", details' = details,
             \E outcome : Finish(r, op, outcome)
      PROVE  DetailsKeptOnlyByFailedJoin'
  BY <1>1, <1>2, FinishOutcome DEF DetailsKeptOnlyByFailedJoin
<1>3. CASE op = "Login" /\ LoginSettler(r, result)
  <2>1. CASE Adopt(r, "Login", "CreateUser")
    BY <1>1, <1>3, <2>1 DEF LoginSettler, Adopt, DetailsKeptOnlyByFailedJoin, handleVars
  <2>2. CASE ~Adopt(r, "Login", "CreateUser")
    BY <1>2, <1>3, <2>2 DEF LoginSettler, handleVars
  <2> QED
    BY <2>1, <2>2
<1>4. CASE op = "CreateDeviceId" /\ CreateDeviceIdSettler(r, result)
  BY <1>2, <1>4 DEF CreateDeviceIdSettler, handleVars
<1>5. CASE op = "Find" /\ FindSettler(r, result)
  <2>1. CASE Finish(r, "Find", "rejected") /\ UNCHANGED details
    BY <1>2, <1>5, <2>1
  <2>2. CASE Adopt(r, "Find", "JoinLobby") /\ details' = Copied(details, r)
    BY <2>2 DEF Adopt, Copied, DetailsKeptOnlyByFailedJoin
  <2> QED
    BY <1>5, <2>1, <2>2 DEF FindSettler
<1>6. CASE op = "JoinLobby" /\ JoinLobbySettle(r, result)
  <2>1. CASE details' = Released(details, r) /\ Finish(r, op, "resolved")
    <3>1. /\ details'[r] # "owned"
          /\ \A q \in Requests \ {r} : details'[q] = details[q]
      BY <2>1 DEF Released
    <3> QED
      BY <2>1, <3>1, FinishOutcome DEF DetailsKeptOnlyByFailedJoin
  <2>2. CASE details' = details /\ Finish(r, op, "rejected")
    BY <2>2, FinishOutcome DEF DetailsKeptOnlyByFailedJoin
  <2> QED
    BY <1>6, <2>1, <2>2 DEF JoinLobbySettle
<1>7. CASE /\ op \notin {"Login", "CreateDeviceId", "Find", "JoinLobby"}
           /\ DefaultSettle(r, op, result)
  BY <1>2, <1>7 DEF DefaultSettle, handleVars
<1> QED
  BY <1>3, <1>4, <1>5, <1>6, <1>7 DEF SettleOp

LEMMA NextKeepsDetails ==
  BridgeInv /\ DetailsKeptOnlyByFailedJoin /\ [Next]_vars
    => DetailsKeptOnlyByFailedJoin'
<1> SUFFICES ASSUME BridgeInv, DetailsKeptOnlyByFailedJoin, [Next]_vars
             PROVE  DetailsKeptOnlyByFailedJoin'
  OBVIOUS
<1>1. ASSUME UNCHANGED <<promise, heap, refused, details>>
      PROVE  DetailsKeptOnlyByFailedJoin'
  BY <1>1 DEF DetailsKeptOnlyByFailedJoin
<1>2. CASE PlatformStep
  BY <1>1, <1>2 DEF PlatformStep, bridgeVars, handleVars
<1>3. CASE PlatformReleased
  BY <1>1, <1>3 DEF PlatformReleased, handleVars
<1>4. ASSUME NEW r \in Requests, NEW api \in Apis, CallApi(r, api)
      PROVE  DetailsKeptOnlyByFailedJoin'
  BY <1>4, CallApiKeepsDetails
<1>5. ASSUME NEW r \in Requests, NEW op \in OpNames, NEW result \in Results(op),
             Callback(r, op, result)
      PROVE  DetailsKeptOnlyByFailedJoin'
  <2>1. <<r, op>> \in heap
    BY <1>5 DEF Callback, BridgeInv, NoUseAfterFree
  <2>2. CASE IsOperationComplete(result)
    BY <1>5, <2>1, <2>2, SettlerKeepsDetails DEF Callback, OnComplete
  <2>3. CASE ~IsOperationComplete(result)
    BY <1>1, <1>5, <2>3 DEF Callback, OnComplete, handleVars
  <2> QED
    BY <2>2, <2>3
<1>6. CASE UNCHANGED vars
  BY <1>1, <1>6 DEF vars, bridgeVars, handleVars
<1> QED
  BY <1>2, <1>3, <1>4, <1>5, <1>6 DEF Next

\* For any requests, in any order and with any results, a join that resolves
\* has released the details it copied; only one that failed, or was not
\* settled because a listener had thrown, leaves them behind.
THEOREM DetailsKeptOnlyByFailedJoinHolds == Spec => []DetailsKeptOnlyByFailedJoin
<1>1. BridgeInit => DetailsKeptOnlyByFailedJoin
  BY DEF BridgeInit, DetailsKeptOnlyByFailedJoin
<1> QED
  BY <1>1, BridgeInvHolds, NextKeepsDetails, PTL DEF Spec

-----------------------------------------------------------------------------
(* The bridge on top of the platform.                                      *)

LEMMA BridgeStepIsPlatformStep == [Next]_vars => [PlatformNext]_platformVars
<1> SUFFICES ASSUME [Next]_vars PROVE [PlatformNext]_platformVars
  OBVIOUS
<1>1. CASE PlatformStep
  BY <1>1 DEF PlatformStep, PlatformNext
<1>2. CASE PlatformReleased
  BY <1>2 DEF PlatformReleased, PlatformNext
<1>3. ASSUME NEW r \in Requests, NEW api \in Apis, CallApi(r, api)
      PROVE  [PlatformNext]_platformVars
  BY <1>3 DEF CallApi
<1>4. ASSUME NEW r \in Requests, NEW op \in OpNames, NEW result \in Results(op),
             Callback(r, op, result)
      PROVE  [PlatformNext]_platformVars
  BY <1>4 DEF Callback
<1>5. CASE UNCHANGED vars
  BY <1>5 DEF vars
<1> QED
  BY <1>1, <1>2, <1>3, <1>4, <1>5 DEF Next

\* Calls, callbacks and settlements leave the platform's state alone, and the
\* shutdown that drops what is in flight is the platform's: every behaviour of
\* the bridge is one of module Platform.
THEOREM BridgeImplementsPlatform == Spec => PlatformSpec
  BY BridgeStepIsPlatformStep, PTL DEF Spec, BridgeInit, PlatformSpec

\* With operations pending, completing and shut down on, EOS_Initialize is never
\* called out of turn; and as long as no log listener calls back into the SDK
\* inside EOS_Platform_Create or EOS_Platform_Release, the SDK is called in the
\* order it allows, the notifications go before the handle, and one interval
\* ticks.
THEOREM BridgeKeepsPlatform ==
  Spec => [](SdkContract /\ NotificationsCleared /\ OneTickLoop)
  BY BridgeImplementsPlatform, SdkContractHolds, NotificationsClearedHolds,
     OneTickLoopHolds, PTL

-----------------------------------------------------------------------------
(* When no settlement is swallowed.                                        *)

\* No operation completes in a tick in which a listener has thrown.
CompletionsUndisturbed ==
  [][\A r \in Requests, op \in OpNames : \A result \in Results(op) :
       Callback(r, op, result) => ~exception]_vars

NoneRefused == refused = {}

LEMMA NoneRefusedStep ==
  ASSUME BridgeInv, NoneRefused, [Next]_vars,
         [\A r \in Requests, op \in OpNames : \A result \in Results(op) :
            Callback(r, op, result) => ~exception]_vars
  PROVE  NoneRefused'
<1> USE DEF NoneRefused
<1>1. CASE UNCHANGED refused
  BY <1>1
<1>2. CASE PlatformStep \/ UNCHANGED vars
  BY <1>1, <1>2 DEF PlatformStep, vars, bridgeVars
<1>3. CASE PlatformReleased
  BY <1>3 DEF PlatformReleased
<1>4. ASSUME NEW r \in Requests, NEW api \in Apis, CallApi(r, api)
      PROVE  NoneRefused'
  BY <1>4 DEF CallApi, StartSimple, Login, CreateDeviceId, CreateLobby,
              LeaveLobby, SendInvite, StartJoin, StartSetAttributes, Start,
              FailsAtOnce
<1>5. ASSUME NEW r \in Requests, NEW op \in OpNames, NEW result \in Results(op),
             Callback(r, op, result), ~UNCHANGED vars
      PROVE  NoneRefused'
  <2>1. ~exception
    BY <1>5
  <2>2. CASE IsOperationComplete(result)
    <3>1. SettleOp(r, op, result)
      BY <1>5, <2>2 DEF Callback, OnComplete
    <3> QED
      BY <2>1, <3>1 DEF SettleOp, LoginSettler, CreateDeviceIdSettler,
           FindSettler, JoinLobbySettle, DefaultSettle, Finish, Adopt, Settle
  <2>3. CASE ~IsOperationComplete(result)
    BY <1>5, <2>3 DEF Callback, OnComplete
  <2> QED
    BY <2>2, <2>3
<1> QED
  BY <1>2, <1>3, <1>4, <1>5 DEF Next

\* callbacks.h:19-20: an op goes only after it settled its promise, or handed it
\* on, as long as no operation completes behind a listener that has thrown in
\* the same tick.
THEOREM SettledUnlessListenersThrow ==
  Spec /\ CompletionsUndisturbed => []SettledBeforeDelete
<1>1. BridgeInit => NoneRefused
  BY DEF BridgeInit, NoneRefused
<1>2. /\ BridgeInv /\ NoneRefused /\ [Next]_vars
      /\ [\A r \in Requests, op \in OpNames : \A result \in Results(op) :
            Callback(r, op, result) => ~exception]_vars
      => NoneRefused'
  BY NoneRefusedStep
<1>3. BridgeInv /\ NoneRefused => SettledBeforeDelete
  BY DEF BridgeInv, OneOpPerPendingPromise, NoneRefused, SettledBeforeDelete
<1> QED
  BY <1>1, <1>2, <1>3, BridgeInvHolds, PTL DEF Spec, CompletionsUndisturbed
=============================================================================
