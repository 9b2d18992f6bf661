# A TLA+ model of node-eos-sdk

These modules model node-eos-sdk, a Node binding of the Epic Online Services
(EOS) SDK: a native addon (`src/*.cc`) and the JavaScript package around it
(`index.js`). Paths below are relative to the repository's root.

## 1. Inventory

| Part | State | Operations | Talks to |
|---|---|---|---|
| **Platform** (`src/platform.cc`, `src/addon.cc`, `State` in `src/eosjs.h`) | `platform`, `initialized`, `shut_down`, `emitter` | `init`, `tick`, `shutdown`, `isInitialized`, `setLogLevel`, `_setEventSink` | SDK; `EmitEvent` calls JavaScript; `shutdown` clears lobby and P2P |
| **Client** (`EosClient` in `index.js`) | `#tickTimer`, `#debug`, `#reassembler`, `#fragmentChannel`, `#nextMessageId` | `init`, `shutdown`, `#dispatch`, the `connect`/`lobby`/`p2p` façades | owns the interval that calls `tick` |
| **Callback bridge** (`src/callbacks.h`, `callbacks.cc`) | one heap-allocated `AsyncOp` per operation, its deferred | `Start`, `StartWithSettler`, `Adopt`, `OnComplete`, `RejectedPromise`, `EmitEvent` | SDK callbacks in, promises and events out |
| **Connect** (`src/connect.cc`) | auth-expiration notification | `login` (→ `CreateUser`), `createDeviceId`, `getLoggedInUsers`, `watchAuthExpiration` | bridge |
| **Lobby** (`src/lobby.cc`, `Lobby` in `index.js`) | four notifications; SDK handles on the way | `create`, `join` (search → find → join), `leave`, attributes, invites, reads | bridge |
| **P2P** (`src/p2p.cc`) | `g_local_user`, `g_socket_name`, `g_auto_accept`, `g_max_packets_per_tick`, three notifications | `configure`, `send`, accept/close, `watchConnections`, `DrainPackets` | tick loop, events |
| **Reassembly** (`fragment`, `Reassembler`, `sendLarge` in `index.js`) | table of partial messages, byte count | `fragment`, `accept`, eviction, budget, `clear` | P2P packets on the fragment channel |
| **Lockstep transport** (`examples/lockstep-transport.js`) | host, peers, lobby | `connect`, `send`, relay, `disconnect` | lobby and P2P |

Everything runs on the JavaScript main thread. A 50 ms interval calls
`platform.tick()`, which runs every SDK callback and then drains P2P packets;
callbacks and listeners run *inside* that call, promise continuations after it.
What is hard is therefore re-entrancy rather than parallelism: a listener can
call any method, or throw, while native frames are below it.

### Hard behaviours

* completion callbacks and the lifetime of their `ClientData`; intermediate
  results; operations that continue as another one (`login`, `join`);
* a listener that throws: the exception stays pending in N-API while the rest
  of the tick runs;
* a listener that calls `shutdown()`; requests pending at shutdown; a `log`
  listener that calls `init()` or `shutdown()` while the SDK creates or releases
  the platform;
* partial failure of `init`, of `join`, of `setAttributes`, with the SDK handles
  and the backing strings each of them owns;
* numbers that are not an `int64_t`, strings that are no C strings, a channel that
  is not one byte;
* several clients in one process over one process-wide `State`;
* lost, duplicated and reordered fragments, budgets, timeouts, reused ids;
* the packet cap per tick, reconfiguration, and packets that arrive between
  `configure()` and the application's listener.

## 2. Modules

| Module | Models | State ↔ code |
|---|---|---|
| `Platform` | `platform.cc`, `_setEventSink`, `EmitEvent`, `EosClient.init/shutdown` and its interval, the skeleton of `DrainPackets` | `initialized`, `platform`, `shut_down`, `emitter` are the fields of `State`; `tickTimer[c]` is `#tickTimer` of client `c`, `lostTimer` an interval whose `#tickTimer` was overwritten; `g_local_user`, `g_notification` the globals of `p2p.cc`, `lobby.cc`, `connect.cc` (ids in three groups, set and cleared together); `frame`, `calls`, `listening`, `exception` say what is on the stack; `library`, `misuse` are the SDK's side |
| `Promises` | abstract: what a caller of an asynchronous method sees | a promise goes from pending to one outcome, once; pending ones may be abandoned only by shutdown or by a swallowed settlement |
| `Bridge` (extends `Platform`) | `AsyncOp`, `connect.cc`, the asynchronous part of `lobby.cc` | `heap` the allocated ops, `inflight` the `ClientData` pointers the SDK holds, `promise[r]` the deferred of call `r`, `search`/`details`/`modification` the SDK handles a call owns |
| `P2P` (extends `Platform`) | `p2p.cc` | the globals by name; `scope` what the notifications were bound to; `drained` the loop counter; `requests`, `connections` and `queue` (how many packets each user has waiting) the SDK's side |
| `MessageChannel` | abstract: each sender's messages arrive at most once, whole, and in order if the mode says so | |
| `LobbyData` | the data of `lobby.cc`: `setAttributes`, `setMemberAttributes`, `getInfo`, `getMembers`, `getAttributes`, `getMemberAttributes` | `modification`, `result`, `storage` are the locals of the call on the stack, `todo` what is left of its loop, `held` the SDK handles it owns; `updates`, `stored` are the service's side, whose keys are `Names`: what is left of the caller's as C strings |
| `Reassembly` | `fragment`, `sendLarge`, `Reassembler` | `nextMessageId` is `#nextMessageId`; `pending`, `bytes` the Reassembler's table and counter; `network` the fragments under way |
| `Dispatch` (extends `Reassembly`) | `#dispatch`, the `fragmentChannel` option, the channel byte of `p2p.cc` | `fragmentChannel[q]` is `#fragmentChannel` of each process; `channel` the channel of each packet of `network`; `surfaced` what was emitted as `p2p:packet` |
| `Lockstep` | `examples/lockstep-transport.js` in several processes, the lobby and the packets between them | `peerIds`, `hostId` by name; `phase` is how far `connect()` and `disconnect()` are; `cache` what each SDK knows of the lobby's `members`; `network[p][q]` the packets from `p` to `q`; `log` what each engine was given |
| `PlatformProofs`, `BridgeProofs`, `P2PProofs`, `LobbyDataProofs`, `ReassemblyProofs`, `AccountingProofs`, `DispatchProofs`, `LockstepProofs` | theorems | |

`Bridge` and `P2P` are composed with `Platform` by extension: their steps are
platform steps with something added, or leave the platform alone. For each of
them this is a theorem (`BridgeImplementsPlatform`, `P2PImplementsPlatform`), so
every theorem about `Platform` holds of both. `Reassembly` stands apart from them: it sees the platform only
through `Receive` (a packet `DrainPackets` dispatched on the fragment channel)
and `ReceiverRestart` (shutdown clears the table). `Dispatch` adds what decides
which packets reach it: the channels that every process is configured with, and
may be configured with again while packets are under way. `LobbyData` takes the
calls of `Bridge` apart that convert data: its actions are the turns of their
loops, and a promise is no longer visible there.
`Lockstep` stands above them: it takes the reliable ordered packets and the
lobby as the package delivers them, and keeps the one thing of the tick that
matters to it, that packets are drained while `connect()` awaits.

**Atomicity.** JavaScript and the addon share one thread. An action is code that
runs without giving JavaScript control: one method call, one SDK callback up to
the point where listeners are called, one turn of the drain loop. A call made
from a listener is the same action as from the event loop, enabled by
`listening`. `frame` records which native loop the listener returns into.
`EOS_Platform_Create` and `EOS_Platform_Release` emit `log` events to JavaScript
(`platform.cc:172`, `:209`) while the flags of `State` still say what was so before
them; `init()` and `shutdown()` are therefore two actions each, before and after the
call, and `calls` is the stack of those under way. A `log` listener may do there
whatever an application may, further calls of both included. In the other SDK
calls a `log` listener may throw and no more. What the SDK does once a
platform of its own was created or released twice is external: the model then
follows the addon's flags, and `reentered` says that it came to this.

**Exceptions.** `EmitEvent` clears a listener's exception and throws it again,
so in N-API it stays pending until the native method returns. While
`exception` is set, `EmitEvent` calls nothing and `Deferred::Resolve`/`Reject`
fail; `SdkDone`, `DrainEnd` and `BacklogReported` end the tick and hand the
exception to the interval's `catch`, `CreateReturns` and `ReleaseReturns` to the
caller of `init()` and `shutdown()`.

**Reassembly data.** A payload is a sequence of slices, each naming its sender,
message, index and length: enough to tell a whole message from a mixture. The
clock is the age of each entry, capped just past the TTL. A lost packet is one
that is never received; repeats, restarts of either side, foreign packets on the
channel and sends that throw halfway are actions. A foreign packet on the fragment
channel is one that `accept` refuses. The channel is reserved (`README.md:288`) and
"both ends must be this package" (`README.md:264`): an application that sends
there eight bytes that look like a header can have them assembled, and nothing
is claimed of that, in `Reassembly` or in `Dispatch`.

**Numbers.** A value of `LobbyData` is an integer, or one of the numbers that are
not (a fraction, minus zero, NaN, the infinities). `int64_t` has `Width` bits, a
double `Precision` bits of significand, in the proportion that matters: the
smallest `int64_t` is a double, the largest is not. A cast out of range, which
C++ leaves undefined, takes every outcome that x86 and ARM give it.

**Strings.** `lobby.cc:109` and `:143` give the SDK the NUL-terminated `c_str()` of
a `Utf8Value`. `LobbyData` knows five strings: a plain one, one with a NUL inside
and what stands before it, one with a lone surrogate and the one with U+FFFD in its
place. `CString` maps them; two keys of the caller may become one name.

**History variables** (`asked`, `retried`, `sent`, `delivered`, `surfaced`, `apart`,
`written`, `given`, `log`, `threw`, `missed`, `reentered`) only record; no guard reads
them but the bound on sends.

## 3. Runs

Bounds are named in the modules (`MaxCalls`, `MaxQueue`, `MaxSends`, `MaxFaults`,
`MaxWrites`, `MaxTurns`, `MaxLeavers`) or are the sizes of the sets in the `.cfg`
files.

| Run | Bounds, and why they are enough | Shows |
|---|---|---|
| `bridge` | 2 concurrent requests, every method, throwing listeners, 1 SDK call of `init` or `shutdown` on the stack (`log` listeners run inside it, and nested ones are the `p2p` run's): two operations in one tick are what it takes to disturb each other | no use after free, no leaked op, one op per pending promise, handles accounted for, copied details kept only by a join that failed, `Promises` implemented; promises settle while the platform is ticked, but for those a pending exception swallowed |
| `p2p` | 2 clients (every pairwise hijack), library fresh or already initialised, 2 nested SDK calls (an `init` or `shutdown` inside another one), 1 peer, 1 socket, a cap of 2 and a queue of 1 that is refilled while it is drained, without end: a tick ends below the cap, at it with nothing left, and at it with a packet left; `EOS_P2P_ReceivePacket` may fail | SDK calling rules, one interval and notifications removed before the handle goes, unless a `log` listener re-entered the SDK; vetting, silence after shutdown, `Platform` implemented; a tick returns, the queue moves, nothing is left behind in silence but after a failed receive |
| `reassembly_reuse` | 1 sender, 2 messages of 1–3 fragments or too many, ids 1–2, 1 fault, unreliable, a budget below one message | what a delivered message is made of; accounting and budget |
| `reassembly_channel` | 2 senders, 2 messages each, sends that fail halfway, a budget that cannot hold both, reliableOrdered | `MessageChannel` implemented; reasons for eviction |
| `reassembly_delivery` (of `Dispatch`) | 2 senders of 1 message of 3 fragments, reliableUnordered, a clock that runs past the TTL, channels 255 (the default) and 263 (7 in one byte), 1 fault (a configure or a foreign packet), a budget that is exactly what can be pending | while two ends agree on a channel of one byte, no fragment surfaces, and every message arrives none of whose fragments comes more than the TTL after the one before it |
| `lockstep` | host and 2 guests, the host neither first nor last in seat order, 3 turns, 1 of them disconnects (the lobby closes with the host), sends may throw, refreshes may be lost | turns once and in order, one order for all, own turns not missed, seats agree at every transport whose last refresh was not lost |
| `lobby_data` | 2 keys that become one name behind a NUL, a string with a lone surrogate, integers of both signs inside, at and beyond the limits (`Width` 5, `Precision` 2, magnitudes 12, 16 and 24: 16 stands for 2^63), a fraction and NaN, 2 writes; the theorems cover the other strings and numbers | what is read is what was written, strings as C strings, numbers exactly; only an integer in range travels as one; an update is whole or not sent; no string moves under a pointer; handles are released on every path |

`CHECK_DEADLOCK FALSE` is set for `Reassembly`, `Dispatch`, `Lockstep` and
`LobbyData`, where the bounded calls run out.

The seven runs above pass. Five others are expected to be violated: each states
one sentence of the documentation or of a comment that the code does not keep.
They are quoted, with the behaviour TLC finds, under `findings` in
`PROJECT.json`:

* `platform_drain_after_shutdown`: the drain loop polls after a listener's
  `shutdown`;
* `bridge_details_leak`: a failed join leaks the copied lobby details;
* `bridge_lost_promise`: an exception swallows another operation's settlement;
* `p2p_reconfigure`: a second `configure()` leaves the notifications bound to
  the user and the socket of the first;
* `reassembly_restart`: message ids restart at 1, so two messages can be mixed.

The following were met while modelling. The models show most of them, but no
run states them:

* a `log` listener that throws while `EOS_Platform_Create` runs makes `init()`
  throw with the platform created and no interval to tick it (`CreateReturns`);
* an `init()` that a `log` listener calls inside another one's
  `EOS_Platform_Create` passes both guards: two platforms are created, and the
  interval of each is started (`StartCreate`, `StartTicking`); with one client
  the first interval is lost and no `shutdown()` clears it (`lostTimer`);
* an `init()` and a `shutdown()` inside another one's `EOS_Platform_Create` leave a
  platform that is ticked after `EOS_Shutdown`; a `shutdown()` inside
  `EOS_Platform_Release` releases the platform twice (`StartRelease`);
* a `shutdown()` that a `log` listener calls inside its own client's `init()` only
  drops the sink, and a platform is then ticked whose events nobody hears
  (`NothingToRelease`, `CreateReturns`);
* when `EOS_P2P_ReceivePacket` fails, the packet and those behind it are left in
  the queue without a `p2p:backlog` (`ReceiveFails`);
* an `init()` of a second client that throws keeps the event sink it took from
  the running one (`index.js:402`; `ClientInit` with `InitRefused`);
* packets drained after a listener threw, in the same tick, are taken from the
  SDK and given to nobody (`DrainPacket` with `exception` set);
* `p2p:backlog` is emitted when the queue held exactly `maxPacketsPerTick`
  packets (`DrainedEnough`);
* `autoAccept` and `maxPacketsPerTick` of an earlier `configure()` stay in force
  when a later one leaves them out (`Given`), although `index.d.ts` documents
  defaults;
* a message larger than `maxPendingBytes` evicts itself and never arrives
  (`EnforceBudget`), although `README.md:245` says "any size";
* with a `fragmentChannel` above 255 at both ends every fragment surfaces as
  `p2p:packet`, although `README.md:288-289` says that none does: the channel is
  cut to eight bits on the way out (`p2p.cc:124`) and compared uncut on the way
  in (`index.js:490`; `OnWire`, `DispatchPacket`; `HalvesNeverSurface` excepts it);
* an unknown permission level makes a lobby public (`lobby.cc:83`, outside the
  model);
* a string attribute is cut at its first NUL, and two keys that differ behind one
  overwrite each other (`lobby.cc:109-110`, `:143-145`; `CString`, `Adds`);
* an attribute that was copied but has no `Data` is not released
  (`lobby.cc:435`; `HandlesReleased` excepts it);
* expired partial messages stay in the table until some other fragment arrives
  (only `Store` sweeps);
* a turn that the host sends to a guest whose `connect()` has not passed its
  await is drained and given to nobody (`NobodyListens`), and a relay that throws
  leaves the later peers and the host's own engine without the turn (`Reached`);
* a `disconnect()` during `connect()` leaves a member behind that nobody plays
  (`Disconnect`), and so does a `connect()` that throws after its await
  (`ConnectFails`);
* a refresh of the seats is lost when another listener threw in the same tick or
  `getMembers` throws, and nothing makes up for it (`MemberStatus`; `SeatsAgree`
  excepts it);
* `README.md:316-319` describes `promoted` events and a host that migrates, although
  `lobby.cc:185` disables host migration: the lobby closes (`Left`).

## 4. Fairness

* The interval keeps firing (`WF` of `Tick`): `setInterval` is cleared by
  `shutdown` only.
* A listener returns (`WF` of `ListenerReturns`): JavaScript runs to completion.
* `EOS_Platform_Tick` returns however often it calls back (`SF` of
  `SdkDone`/`StartDraining`: listeners interrupt it, so weak fairness would let
  it call back for ever), and the drain loop runs on (`WF` of `DrainStep` in
  `P2P`, where the counter bounds it; in `Bridge`, which has no counter, `SF`
  of leaving the loop stands for it). The other SDK calls return in the same way
  (`SF` of `SdkReturns`).
* `EOS_P2P_ReceivePacket` does not refuse for ever a packet whose size it gave (`SF`
  of `DrainOne`). With a cap of 0, which the run does not use, nothing is ever
  drained.
* The SDK calls back for an operation as long as the platform is ticked
  (`callbacks.h:20-22`): fairness of the terminal callback in `Bridge`.
* A process hears of changes of its lobby (`WF` of `MemberStatus` in
  `Lockstep`), as long as it is ticked: its SDK's cache changes; that its transport
  refreshes the seats is not assumed.
* A reliable transport delivers, and the interval drains what it delivered (`WF`
  of `ReceivePacket` in `Dispatch`), at any time: no fairness says when, and the clock
  may run meanwhile. `Reassembly` by itself assumes no fairness.
  No fairness is assumed of the application: it need not call
  anything, accept a connection, configure a channel, or send.

## 5. Theorems

All proofs are checked by TLAPS for every value of the constants that satisfies
the modules' named assumptions.

* **Platform** (`PlatformProofs`): `SdkContract`, `NotificationsCleared` and
  `OneTickLoop`. The inductive invariant ties the flags together: a platform
  exists only while the library is up and was not shut down, a timer runs only
  for the client whose `init` created the platform, and the notification groups
  shrink in the step that releases it. All of it holds until a `log` listener has a
  platform created, released or watched inside `EOS_Platform_Create` or
  `EOS_Platform_Release` (`reentered`); that `EOS_Initialize` is never misused holds
  even then.
* **Bridge** (`BridgeProofs`): type correctness; `NoUseAfterFree`, `NoOpLeak`,
  `OneOpPerPendingPromise`, `HandlesAccountedFor`, and that the bridge
  implements `Promises` and `Platform` (`BridgeKeepsPlatform` carries the
  platform's three invariants over, with their exception). The invariant needed beyond these is that the ops a
  request has on the heap are those of one stage of its method, which is what
  makes an adopted deferred safe. `DetailsKeptOnlyByFailedJoin` is the other half of
  the run `bridge_details_leak`: with it, the leak is that of joins which failed or
  whose settlement was swallowed, and of no others.
* **P2P** (`P2PProofs`): type correctness, `PeersVetted`, and that every step is
  a `Platform` step or a stutter. The `Platform` theorems then carry over. Vetting
  needs one more conjunct: while the last `configure` said `autoAccept: false`,
  `g_auto_accept` is false. `QuietAfterShutdown` and `BacklogReportedToJs` are
  action properties: each action that calls a listener, or ends a drain, is taken
  in turn, from the types and the platform's invariant.
* **LobbyData** (`LobbyDataProofs`): types, `NoDanglingPointers`, `WholeUpdates`,
  `ReadsWhatWasWritten`, `ExactInt64`, `HandlesReleased`. The invariant says of
  the call on the stack what the properties say of its end: the modification
  holds a conversion of every attribute of the object that the loop has passed,
  the vector of strings has room for those that are left, and the handles are
  those of the loop. Of the arithmetic it uses only that a number equal to the
  double of an `int64_t` converts back to itself, and of the strings nothing but
  that what is read is the `CString` of what was written last under the name it
  became.
* **Reassembly** (`ReassemblyProofs`): `WrongOnlyIfIdReused` and
  `IntactWhileIdsUnique`. The property speaks of delivered messages only, so it
  is not inductive; the invariant follows a slice from `fragment` over the wire
  into the table, always under the id, total and index it was cut with, and
  says that `received` counts the filled places. An entry whose count equals its
  total then has no hole (cardinality of an interval), which is why
  `Buffer.concat` never sees `undefined`.
* **Channel** (in `ReassemblyProofs`): over either reliable mode, as long as no
  peer uses an id twice, `Reassembly` implements `MessageChannel`
  (`ReassemblyImplementsChannel`). The invariant (`OnePlaceInv`): a slice is in one
  place, on the wire or in the table, and in none once its message was delivered;
  in the ordered mode the wire is sorted and ahead of what was delivered. While
  ids are unique the `CHOOSE` of the refinement mapping names the message the
  slices were cut from (`MessagesNumbered`), and `accept` either leaves
  `delivered` alone or delivers the next number.
* **While peers stay up** (in `ReassemblyProofs`): `reassembly_restart` shows that
  the hypothesis on the ids is needed. `IdsUniqueWhileUp` says when it holds: no sender is
  restarted (`NobodyRestarts`), none sends more messages than there are ids
  (`MaxSends <= MaxMessageId`, in the code 2^32 - 1), and all payloads are ones that
  `fragment` takes, because a payload that it refuses uses up an id without being
  a message. `NoMixingWhileUp` and `ChannelWhileUp` are then `NoMixing` and
  `ImplementsChannel` without a proviso. The invariant (`IdsInv`) is that the k-th
  message has the id k and the counter is one ahead, or back at 1 after the last.
* **Accounting** (`AccountingProofs`): `ByteAccounting`, `WithinBudget`,
  `DropsOnlyForAReason`, and `TypeOK`, whose claim that `bytes` is a natural number
  is true only because the accounting is right. The invariant (`AccountInv`): each
  entry counts the bytes of the slices it holds, `bytes` is the sum over the table
  and within the budget, and the positions in the `Map`'s order are distinct and
  below the next one. Sums over the table are folds. That they behave (adding or
  dropping an entry changes the sum by its bytes, a part of a table sums to no
  more) is proved without the induction theorems: among the finite subsets for which a
  claim about the sum were false there would be a smallest one. `EnforceBudgetFits` and
  `EnforceBudgetTakesOldest` say of the eviction loop, which the model
  states as the set of entries whose elders are not enough to drop, that it ends
  within the budget and takes the oldest. `DropsOnlyForAReason` then follows action by action.
* **Dispatch** (`DispatchProofs`): `HalvesNeverSurface`, and that the invariants of
  `Reassembly`, slices and accounts (`DispatchKeepsSlicesGenuine`,
  `DispatchKeepsAccounts`), survive everything `Dispatch` adds. The invariant
  beside them (`ChannelInv`): a sender that never parted from this process agrees
  with it now, so none of its fragments under way has another channel than the
  one `#dispatch` compares with; a configuration of this process that changed the
  channel would have parted them. `DispatchImplementsChannel` carries the refinement
  over: to the Reassembler a step of `Dispatch` is one of its own or leaves less on
  the wire, so over a reliable mode channels that part lose messages, but never
  repeat, reorder or mix them. It needs no proviso on the ids beyond
  `MaxSends <= MaxMessageId`, since nobody restarts in `Dispatch`. Packets of the
  application's own travel on any channel, but on the fragment channel only those
  that `accept` refuses (section 2, reassembly data).
* **Lockstep** (`LockstepProofs`): types, `TurnsInOrder`, `OwnTurnsToo`, `OneOrder`. A turn
  reaches an engine by one of three ways, and the invariant says that for each
  peer and engine only one of them is ever used (`Routed`), that each channel and
  each log is in order (`AllSorted`), and that a log is ahead of what is still on
  the way to it (`LogsAhead`, `HostAhead`, `RelayAhead`). `OneOrder` takes the host's log as the order and extends each
  engine's log with the host's channel to it: the extended logs never disagree
  on two turns of other peers (`PlacesInv`), and a delivery moves a turn within
  the extended log.

* **What the violated sentences need.** For each run that is expected to be
  violated, a theorem says what the program has to be spared for the sentence to
  hold after all:

  | Run | Theorem | Holds as long as |
  |---|---|---|
  | `platform_drain_after_shutdown` | `NoPollUnlessShutDownInside` | no listener that `DrainPackets` calls shuts EOS down |
  | `bridge_lost_promise` | `SettledUnlessListenersThrow` | no operation completes in a tick in which a listener has thrown |
  | `bridge_details_leak` | `DetailsKeptOnlyByFailedJoinHolds` | no join fails, nor is its settlement swallowed |
  | `p2p_reconfigure` | `SocketHeardIfConfiguredOnce` | user and socket do not change while connections are watched |
  | `reassembly_restart` | `NoMixingWhileUp` | no sender restarts, sends more messages than there are ids, or has a payload refused |

  The conditions on listeners, configuration and restarts are conditions on steps,
  not on constants: they speak of single behaviours of a program in which a
  listener may throw, or a process restart.

## 6. What is only model-checked, and what is not modelled

Only TLC: liveness (`SeatsAgree`, `EventuallySettled`, `TickReturns`,
`QueueMoves`, `EventuallyDelivered`), which TLAPS cannot reach. Every invariant
and action property of a passing run, and every refinement, is a theorem.
`ImplementsChannel` is claimed for the reliable modes only: unreliable packets
are repeated, and a message of one fragment with them. The five violations are
counterexamples and need no proof.

Not modelled:

* the loader and its errors, log levels, debug gating of `log`, the `statusName`
  of member-status events: formatting and module loading;
* conversions of user and lobby ids, permission levels, `getLoggedInUsers`: they keep
  no state, and no property tells their results apart (the strings of attributes,
  of which `ReadsWhatWasWritten` speaks, are modelled);
* attribute objects with getters, which would give JavaScript control in the
  middle of `setAttributes`;
* `EOS_P2P_SendPacket`, accept and close calls that fail: they throw at the
  caller and change nothing. In `Reassembly` the failing send is modelled,
  because `sendLarge` is interrupted by it; the failing `EOS_P2P_ReceivePacket` is
  `ReceiveFails` of `P2P`;
* packets of the application's own on the fragment channel that pass for
  fragments (section 2);
* what the SDK does inside a tick once a listener has released its platform, or
  with two platforms of one process;
* an `init()` with two required options missing (`platform.cc:24`): what N-API does
  when it is called with an exception pending depends on its build;
* crashes of a process and a second session of one transport in `Lockstep`: the
  example handles neither;
* the other examples (straight-line programs and IPC glue), the type
  declarations, the tests and scripts.

## 7. What could be added

* Runs that single out what a `log` listener can do inside `EOS_Platform_Create`
  and `EOS_Platform_Release`: the model has it, and `reentered` sets it apart.
* Fragments of the application's own making in `Dispatch`.
* A sender that restarts in `Dispatch`, so that its theorems speak of reused ids
  as those of `Reassembly` do.
* Two sessions of one transport in `Lockstep`, if the example came to support them.
