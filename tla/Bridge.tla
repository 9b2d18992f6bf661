------------------------------- MODULE Bridge -------------------------------
(***************************************************************************)
(* The bridge from SDK callbacks to JavaScript promises: the AsyncOp       *)
(* template of src/src/callbacks.h and every function of connect.cc and    *)
(* lobby.cc that starts an operation, on top of the platform's life.       *)
(*                                                                         *)
(* A request is one call of an asynchronous method.  An AsyncOp is the     *)
(* pair of a request and the SDK function it waits for; its address is the *)
(* ClientData that comes back in the completion callback.                  *)
(***************************************************************************)
EXTENDS Platform

CONSTANTS
  Requests,  \* the calls the application makes
  Apis       \* the methods it uses, a subset of ApiNames

ApiNames == {"login", "createDeviceId", "create", "leave", "sendInvite", "join",
             "setAttributes"}

ASSUME BridgeAssumption == Apis \subseteq ApiNames

VARIABLES
  promise,       \* per request: the promise its caller holds
  heap,          \* the AsyncOps that are allocated
  inflight,      \* the SDK operations whose callback is still to come, by the
                 \* op their ClientData points to (external)
  refused,       \* requests whose deferred N-API refused to settle because an
                 \* exception was pending (external)
  search,        \* per request: the EOS_HLobbySearch of JoinLobby
  details,       \* per request: the EOS_HLobbyDetails of JoinLobby
  modification   \* per request: the EOS_HLobbyModification of ApplyAttributes

handleVars == <<search, details, modification>>
bridgeVars == <<promise, heap, inflight, refused, handleVars>>
vars == <<platformVars, bridgeVars>>

OpNames == {"Login", "CreateUser", "CreateDeviceId", "CreateLobby",
            "LeaveLobby", "SendInvite", "Find", "JoinLobby", "UpdateLobby"}
Ops == Requests \X OpNames

\* "threw": the method threw instead of returning a promise.  "settled twice":
\* a deferred was used after N-API had freed it.
PromiseStates ==
  {"none", "pending", "resolved", "rejected", "threw", "settled twice"}
HandleStates == {"none", "owned", "released", "released twice"}

BridgeTypeOK ==
  /\ TypeOK
  /\ promise \in [Requests -> PromiseStates]
  /\ heap \subseteq Ops
  /\ inflight \subseteq Ops
  /\ refused \subseteq Requests
  /\ search \in [Requests -> HandleStates]
  /\ details \in [Requests -> HandleStates]
  /\ modification \in [Requests -> HandleStates]

BridgeInit ==
  /\ PlatformInit
  /\ promise = [r \in Requests |-> "none"]
  /\ heap = {}
  /\ inflight = {}
  /\ refused = {}
  /\ search = [r \in Requests |-> "none"]
  /\ details = [r \in Requests |-> "none"]
  /\ modification = [r \in Requests |-> "none"]

-----------------------------------------------------------------------------
(* What the functions below are made of.                                   *)

\* EOS_*_Release of the handle that request r keeps in the variable h.
Released(h, r) ==
  [h EXCEPT ![r] = IF @ = "owned" THEN "released" ELSE "released twice"]

Copied(h, r) == [h EXCEPT ![r] = "owned"]

\* RejectedPromise, or an exception thrown at the caller: no op is created.
FailsAtOnce(r, outcome) ==
  /\ promise' = [promise EXCEPT ![r] = outcome]
  /\ UNCHANGED <<heap, inflight, refused>>

\* Start or StartWithSettler, the SDK call, and op->Promise().
Start(r, op) ==
  /\ promise' = [promise EXCEPT ![r] = "pending"]
  /\ heap' = heap \cup {<<r, op>>}
  /\ inflight' = inflight \cup {<<r, op>>}
  /\ UNCHANGED refused

\* Mutation: a failure rejects nothing.
Settle_SuccessOnly(r, outcome) ==
  /\ promise' = IF outcome = "resolved" THEN [promise EXCEPT ![r] = outcome]
                ELSE promise
  /\ UNCHANGED refused

\* Deferred::Resolve or Reject.  N-API does neither while an exception is
\* pending, and the deferred goes with the op.
Settle(r, outcome) ==
  IF exception
  THEN refused' = refused \cup {r} /\ UNCHANGED promise
  ELSE /\ promise' = [promise EXCEPT ![r] =
                        IF @ = "pending" THEN outcome ELSE "settled twice"]
       /\ UNCHANGED refused

\* Mutation: OnComplete does not delete the op.
Finish_NoDelete(r, op, outcome) == Settle(r, outcome) /\ UNCHANGED heap

\* The op settles its promise, and OnComplete deletes it.
Finish(r, op, outcome) ==
  /\ Settle(r, outcome)
  /\ heap' = heap \ {<<r, op>>}

\* Mutation: the deferred is not handed on.
Adopt_Forgets(r, op, next) == heap' = heap \ {<<r, op>>} /\ UNCHANGED <<promise, refused>>

\* Mutation: the promise is resolved when the next operation starts.
Adopt_Resolves(r, op, next) ==
  heap' = (heap \ {<<r, op>>}) \cup {<<r, next>>} /\ Settle(r, "resolved")

\* Adopt: the op that OnComplete deletes leaves its deferred to another one.
Adopt(r, op, next) ==
  /\ heap' = (heap \ {<<r, op>>}) \cup {<<r, next>>}
  /\ UNCHANGED <<promise, refused>>

-----------------------------------------------------------------------------
(* The methods.  RequirePlatform throws, and changes nothing, without one. *)

\* The types of credentials that connect.login tells apart, and whether it takes
\* one with or without a token.
CredentialTypes == {"DEVICE_ID_ACCESS_TOKEN", "another known type", "unknown"}

LoginAccepted(type, hasToken) ==
  \/ type = "DEVICE_ID_ACCESS_TOKEN"
  \/ type = "another known type" /\ hasToken

Login(r) ==
  \E type \in CredentialTypes, hasToken \in BOOLEAN :
    IF LoginAccepted(type, hasToken) THEN Start(r, "Login")
    ELSE FailsAtOnce(r, "threw")

CreateDeviceId(r) == Start(r, "CreateDeviceId")

\* Mutation: an operation that no callback knows.
CreateLobby_Unknown(r) == Start(r, "Create")

\* Without an options object, CreateLobby and LeaveLobby throw.
CreateLobby(r) == FailsAtOnce(r, "threw") \/ Start(r, "CreateLobby")

LeaveLobby(r) == FailsAtOnce(r, "threw") \/ Start(r, "LeaveLobby")

SendInvite(r) == Start(r, "SendInvite")

StartSimple(r, api) ==
  /\ \/ api = "login" /\ Login(r)
     \/ api = "createDeviceId" /\ CreateDeviceId(r)
     \/ api = "create" /\ CreateLobby(r)
     \/ api = "leave" /\ LeaveLobby(r)
     \/ api = "sendInvite" /\ SendInvite(r)
  /\ UNCHANGED handleVars

\* JoinLobby: CreateLobbySearch and SetLobbyId may fail before Find starts.
StartJoin(r) ==
  /\ \/ FailsAtOnce(r, "threw") /\ UNCHANGED search
     \/ FailsAtOnce(r, "rejected") /\ UNCHANGED search
     \/ FailsAtOnce(r, "rejected") /\ search' = Released(Copied(search, r), r)
     \/ Start(r, "Find") /\ search' = Copied(search, r)
  /\ UNCHANGED <<details, modification>>

\* ApplyAttributes: once UpdateLobbyModification has made the handle, a value
\* of an unsupported type throws, AddAttribute may fail, and UpdateLobby takes
\* a reference of its own.
StartSetAttributes(r) ==
  /\ \/ /\ \/ FailsAtOnce(r, "threw")
           \/ FailsAtOnce(r, "rejected")
        /\ UNCHANGED modification
     \/ /\ \/ FailsAtOnce(r, "threw")
           \/ FailsAtOnce(r, "rejected")
           \/ Start(r, "UpdateLobby")
        /\ modification' = Released(Copied(modification, r), r)
  /\ UNCHANGED <<search, details>>

CallApi(r, api) ==
  /\ JsRuns
  /\ promise[r] = "none"
  /\ platform
  /\ \/ StartSimple(r, api)
     \/ api = "join" /\ StartJoin(r)
     \/ api = "setAttributes" /\ StartSetAttributes(r)
  /\ UNCHANGED platformVars

-----------------------------------------------------------------------------
(* The completion callbacks, inside EOS_Platform_Tick.                     *)

\* EOS_Failure stands for every result the code does not name.
Results(op) ==
  {"EOS_Success", "EOS_OperationWillRetry", "EOS_Failure"}
    \cup (IF op # "Login" THEN {}
          ELSE {"EOS_InvalidUser with a token", "EOS_InvalidUser without a token"})
    \cup (IF op # "CreateDeviceId" THEN {} ELSE {"EOS_DuplicateNotAllowed"})

\* EOS_EResult_IsOperationComplete (external).
IsOperationComplete(result) == result # "EOS_OperationWillRetry"

\* Login's settler: a first login goes on with CreateUser.
LoginSettler(r, result) ==
  /\ IF result = "EOS_InvalidUser with a token"
     THEN Adopt(r, "Login", "CreateUser")
     ELSE Finish(r, "Login",
                 IF result = "EOS_Success" THEN "resolved" ELSE "rejected")
  /\ UNCHANGED handleVars

CreateDeviceIdSettler(r, result) ==
  /\ Finish(r, "CreateDeviceId",
            IF result \in {"EOS_Success", "EOS_DuplicateNotAllowed"}
            THEN "resolved" ELSE "rejected")
  /\ UNCHANGED handleVars

\* Mutation: an early return on failure forgets the search handle.
SearchReleased_OnSuccess(r, result) ==
  IF result = "EOS_Success" THEN Released(search, r) ELSE search

SearchReleased(r, result) == Released(search, r)

\* Find's settler owns the search handle; with a result it goes on to join.
FindSettler(r, result) ==
  /\ search' = SearchReleased(r, result)
  /\ \/ Finish(r, "Find", "rejected") /\ UNCHANGED details
     \/ /\ result = "EOS_Success"
        /\ Adopt(r, "Find", "JoinLobby")
        /\ details' = Copied(details, r)
  /\ UNCHANGED modification

\* Mutation: the promise is resolved with the details still copied.
JoinLobbySettle_Keeps(r, result) ==
  /\ Finish(r, "JoinLobby",
            IF result = "EOS_Success" THEN "resolved" ELSE "rejected")
  /\ UNCHANGED handleVars

\* The mapper that releases the details runs only on success.
JoinLobbySettle(r, result) ==
  /\ IF result = "EOS_Success"
     THEN /\ details' = Released(details, r)
          /\ Finish(r, "JoinLobby", "resolved")
     ELSE Finish(r, "JoinLobby", "rejected") /\ UNCHANGED details
  /\ UNCHANGED <<search, modification>>

\* AsyncOp::Settle without a custom settler.
DefaultSettle(r, op, result) ==
  /\ Finish(r, op, IF result = "EOS_Success" THEN "resolved" ELSE "rejected")
  /\ UNCHANGED handleVars

\* Which settler or mapper the op was created with.
SettleOp(r, op, result) ==
  \/ op = "Login" /\ LoginSettler(r, result)
  \/ op = "CreateDeviceId" /\ CreateDeviceIdSettler(r, result)
  \/ op = "Find" /\ FindSettler(r, result)
  \/ op = "JoinLobby" /\ JoinLobbySettle(r, result)
  \/ /\ op \notin {"Login", "CreateDeviceId", "Find", "JoinLobby"}
     /\ DefaultSettle(r, op, result)

\* Mutation: intermediate results settle and delete as well.
OnComplete_Always(r, op, result) == SettleOp(r, op, result)

\* AsyncOp::OnComplete.
OnComplete(r, op, result) ==
  IF IsOperationComplete(result)
  THEN SettleOp(r, op, result)
  ELSE UNCHANGED <<promise, heap, refused, handleVars>>

\* The SDK calls back.  It forgets the operation when the result is final, and
\* takes on the one that a settler has started.
Callback(r, op, result) ==
  /\ frame = "tick" /\ NativeRuns
  /\ platform
  /\ <<r, op>> \in inflight
  /\ OnComplete(r, op, result)
  /\ inflight' = (inflight \ IF IsOperationComplete(result)
                              THEN {<<r, op>>} ELSE {}) \cup (heap' \ heap)
  /\ UNCHANGED platformVars

-----------------------------------------------------------------------------
\* What is in flight goes with the platform: no callback comes any more.
PlatformReleased ==
  /\ ReleaseReturns
  /\ inflight' = {}
  /\ UNCHANGED <<promise, heap, refused, handleVars>>

PlatformStep ==
  /\ \/ \E c \in Clients : ClientInit(c) \/ ClientShutdown(c) \/ Tick(c)
     \/ \E u \in Users \cup {Nobody} : ClientConfigure(u)
     \/ CreateReturns \/ SdkLogs \/ SdkEvent \/ ListenerReturns \/ SdkDone
     \/ DrainPacket \/ DrainEnd \/ DrainCapped \/ BacklogReported
  /\ UNCHANGED bridgeVars

Next ==
  \/ PlatformStep
  \/ PlatformReleased
  \/ \E r \in Requests, api \in Apis : CallApi(r, api)
  \/ \E r \in Requests, op \in OpNames : \E result \in Results(op) :
       Callback(r, op, result)

Spec == BridgeInit /\ [][Next]_vars

\* The function of the SDK that is on the stack returns.
SdkReturns ==
  PlatformReleased \/ ((CreateReturns \/ SdkDone) /\ UNCHANGED bridgeVars)

\* setInterval keeps firing; the SDK's functions and the loop of DrainPackets
\* return however often they call JavaScript; a listener returns; and the SDK
\* completes every operation as long as the platform is ticking
\* (src/src/callbacks.h:20-22).
Fairness ==
  /\ WF_vars((\E c \in Clients : Tick(c)) /\ UNCHANGED bridgeVars)
  /\ WF_vars(ListenerReturns /\ UNCHANGED bridgeVars)
  /\ SF_vars(SdkReturns)
  /\ SF_vars((DrainEnd \/ BacklogReported) /\ UNCHANGED bridgeVars)
  /\ \A r \in Requests :
       SF_vars(\E op \in OpNames :
                 \E result \in Results(op) \ {"EOS_OperationWillRetry"} :
                   Callback(r, op, result))

FairSpec == Spec /\ Fairness

-----------------------------------------------------------------------------
(* Properties.                                                             *)

\* The ClientData of every operation in flight points to an op that is still
\* allocated: no completion callback uses freed memory (callbacks.h:3-7), also
\* when the SDK reports intermediate results first.
NoUseAfterFree == inflight \subseteq heap

\* While the platform lives, every allocated op is waiting for a callback that
\* will delete it: no operation leaks its op (callbacks.h:19-22).  (A platform
\* that a log listener released, or had created a second time, inside the
\* creation of another takes its operations with it.)
NoOpLeak == platform /\ ~reentered => heap \subseteq inflight

\* A promise that is pending has exactly one op that will settle it, and an op
\* only ever holds a deferred that is still open.  A settler that neither
\* settles nor hands its deferred on, or does both, breaks it
\* (callbacks.h:42-44); a pending exception is the one thing the code lets
\* come between.
OneOpPerPendingPromise ==
  /\ \A r \in Requests :
       promise[r] = "pending" =>
         r \in refused \/ \E op \in OpNames : <<r, op>> \in heap
  /\ \A x \in heap : promise[x[1]] = "pending" /\ x[1] \notin refused
  /\ \A x, y \in heap : x[1] = y[1] => x = y

\* A search handle is owned exactly while its Find op is allocated, a details
\* handle at least while JoinLobby uses it, a modification handle never
\* outlives the call; no handle is released twice (lobby.cc:256-257, 569-570).
HandlesAccountedFor ==
  /\ \A r \in Requests :
       /\ search[r] = "owned" <=> <<r, "Find">> \in heap
       /\ <<r, "JoinLobby">> \in heap => details[r] = "owned"
       /\ modification[r] # "owned"
       /\ "released twice" \notin {search[r], details[r], modification[r]}

\* Lobby details that were copied for a join are released in the end, unless it
\* failed or its settlement was swallowed: a join that resolves never keeps
\* them (the mapper at lobby.cc:297-302).
DetailsKeptOnlyByFailedJoin ==
  \A r \in Requests :
    details[r] = "owned" =>
      <<r, "JoinLobby">> \in heap \/ promise[r] = "rejected" \/ r \in refused

\* The bridge keeps the contract of module Promises.  The flag shut_down ends
\* the contract, unless log listeners called back into the SDK before: a platform
\* may then be there after EOS_Shutdown, and what remains of the contract is that
\* promises are settled once and in a tick.
P == INSTANCE Promises WITH
       status <- promise, ticking <- (frame = "tick"),
       ended <- (shut_down /\ ~reentered)
ImplementsPromises == P!Spec

\* As long as an interval ticks the platform, every promise the application
\* gets is settled, unless N-API refused to because a listener had thrown
\* (callbacks.h:20-22), or a log listener called back into the SDK inside
\* EOS_Platform_Create or EOS_Platform_Release.
EventuallySettled ==
  \A r \in Requests :
    promise[r] = "pending"
      ~> \/ promise[r] # "pending" \/ r \in refused
         \/ ~platform \/ \A c \in Clients : ~tickTimer[c]
         \/ reentered

\* CONTRIBUTING.md: "Every copied SDK handle gets released.  Lobby details
\* handles in particular".
DetailsReleased ==
  \A r \in Requests : details[r] = "owned" => <<r, "JoinLobby">> \in heap

\* callbacks.h:19-20: "The op deletes itself in OnComplete after settling the
\* promise": no promise is left pending without an op.
SettledBeforeDelete ==
  \A r \in Requests :
    promise[r] = "pending" => \E op \in OpNames : <<r, op>> \in heap
=============================================================================
