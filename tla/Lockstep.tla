------------------------------ MODULE Lockstep ------------------------------
(***************************************************************************)
(* The lockstep transport of examples/lockstep-transport.js: one EosTrans- *)
(* port in each of several processes, the lobby they meet in, and the      *)
(* reliableOrdered packets between them.                                   *)
(*                                                                         *)
(* A payload is abstracted to its sender and the number of its turn.  What *)
(* a process knows of the lobby is the SDK's cache, which follows the      *)
(* service with a delay; the cache changes and the 'lobby:member-status'   *)
(* event comes, or is lost, in one step.  The lobby's owner is the host    *)
(* and stays so: lobby.cc:185 disables host migration, and the lobby is    *)
(* closed when the host leaves.  A transport connects once, and a process  *)
(* that disconnects stays alive.                                           *)
(***************************************************************************)
EXTENDS Naturals, Sequences, FiniteSets, Functions

CONSTANTS
  Peers,         \* the product user ids, numbers so that they can be sorted
  Host,          \* the transport that was made without a lobbyId
  Nobody,        \* no peer
  SendsMayFail,  \* whether p2p.send may throw
  MaxTurns,      \* bound: turns all engines send
  MaxLeavers     \* bound: transports that disconnect

ASSUME LockstepAssumption ==
  /\ Peers \subseteq Nat
  /\ Host \in Peers
  /\ Nobody \notin Peers
  /\ SendsMayFail \in BOOLEAN
  /\ MaxTurns \in Nat
  /\ MaxLeavers \in Nat

VARIABLES
  phase,     \* how far connect() and disconnect() of each transport are
  peerIds,   \* EosTransport.peerIds
  hostId,    \* EosTransport.hostId
  handlers,  \* the engine's handlers are in #payloadHandlers
  members,   \* the lobby, at the service
  cache,     \* the members its SDK knows of, while a transport may look
  network,   \* the packets under way from one peer to another, in order
  turns,     \* how many turns each engine has sent
  log,       \* history: what each engine was given, in order
  threw,     \* history: a send of this transport threw
  missed     \* history: this transport's last refresh of its peers was lost

lobbyVars == <<members, cache>>
seatVars == <<phase, peerIds, hostId, handlers, missed>>
vars == <<seatVars, lobbyVars, network, turns, log, threw>>

\* "requested": connect() awaits the lobby; "resolved": the lobby's promise is
\* settled, and the code after the await has not run yet; "failed": connect()
\* has thrown after it.
Phases ==
  {"new", "requested", "resolved", "failed", "connected", "leaving", "left"}
Messages == [from : Peers, turn : Nat \ {0}]

TypeOK ==
  /\ phase \in [Peers -> Phases]
  /\ peerIds \in [Peers -> SUBSET Peers]
  /\ hostId \in [Peers -> {Host, Nobody}]
  /\ \A p \in Peers : phase[p] = "connected" => hostId[p] = Host
  /\ handlers \in [Peers -> BOOLEAN]
  /\ members \subseteq Peers
  /\ cache \in [Peers -> SUBSET Peers]
  /\ network \in [Peers -> [Peers -> Seq(Messages)]]
  /\ turns \in [Peers -> Nat]
  /\ log \in [Peers -> Seq(Messages)]
  /\ threw \in [Peers -> BOOLEAN]
  /\ missed \in [Peers -> BOOLEAN]

Init ==
  /\ phase = [p \in Peers |-> "new"]
  /\ peerIds = [p \in Peers |-> {}]
  /\ hostId = [p \in Peers |-> Nobody]
  /\ handlers = [p \in Peers |-> TRUE]
  /\ members = {}
  /\ cache = [p \in Peers |-> {}]
  /\ network = [p \in Peers |-> [q \in Peers |-> << >>]]
  /\ turns = [p \in Peers |-> 0]
  /\ log = [p \in Peers |-> << >>]
  /\ threw = [p \in Peers |-> FALSE]
  /\ missed = [p \in Peers |-> FALSE]

Move(p, from, to) == phase[p] = from /\ phase' = [phase EXCEPT ![p] = to]

-----------------------------------------------------------------------------
(* connect().                                                              *)

\* Up to the await: configure, then lobby.create or lobby.join.  Guests learn
\* the id of the lobby from a host whose connect() has returned.
Connect(p) ==
  /\ Move(p, "new", "requested")
  /\ p = Host \/ hostId[Host] # Nobody
  /\ UNCHANGED <<peerIds, hostId, handlers, missed, lobbyVars, network, turns,
                 log, threw>>

\* The service lets the peer in: the host into the lobby it makes, a guest
\* into one that is open.
Enter(p) ==
  /\ phase[p] = "requested" /\ p \notin members
  /\ p = Host \/ members # {}
  /\ members' = members \cup {p}
  /\ UNCHANGED <<seatVars, cache, network, turns, log, threw>>

\* The completion callback settles the promise inside the tick; the rest of
\* connect() waits until the tick is over.
Entered(p) ==
  /\ p \in members
  /\ Move(p, "requested", "resolved")
  /\ cache' = [cache EXCEPT ![p] = members]
  /\ UNCHANGED <<peerIds, hostId, handlers, missed, members, network, turns,
                 log, threw>>

EnterFails(p) ==
  /\ p \notin members
  /\ Move(p, "requested", "new")
  /\ UNCHANGED <<peerIds, hostId, handlers, missed, lobbyVars, network, turns,
                 log, threw>>

\* #refreshPeers: the members this process's SDK knows of.
RefreshPeers(p, known) == peerIds' = [peerIds EXCEPT ![p] = known[p]]

\* Mutation: the host is not looked up.
Connected_ForgetsHost(p) ==
  /\ Move(p, "resolved", "connected")
  /\ RefreshPeers(p, cache)
  /\ UNCHANGED <<hostId, handlers, missed, lobbyVars, network, turns, log, threw>>

\* After the await.  The listeners are attached even if disconnect() was called
\* meanwhile.
Connected(p) ==
  /\ Move(p, "resolved", "connected")
  /\ cache[p] # {}
  /\ hostId' = [hostId EXCEPT ![p] = Host]
  /\ RefreshPeers(p, cache)
  /\ UNCHANGED <<handlers, missed, lobbyVars, network, turns, log, threw>>

\* getOwner or getMembers throws, as they do once the lobby is closed: connect()
\* rejects, and no listener is attached.
ConnectFails(p) ==
  /\ Move(p, "resolved", "failed")
  /\ UNCHANGED <<peerIds, hostId, handlers, missed, lobbyVars, network, turns,
                 log, threw>>

\* Mutation: the peers are refreshed before the SDK's cache has changed.
MemberStatus_Early(p) ==
  /\ phase[p] \in {"resolved", "connected"}
  /\ cache[p] # members
  /\ cache' = [cache EXCEPT ![p] = members]
  /\ \/ /\ phase[p] = "connected" /\ p \in members
        /\ RefreshPeers(p, cache)
        /\ missed' = [missed EXCEPT ![p] = FALSE]
     \/ /\ missed' = [missed EXCEPT ![p] = phase[p] = "connected"]
        /\ UNCHANGED peerIds
  /\ UNCHANGED <<phase, hostId, handlers, members, network, turns, log, threw>>

\* The SDK learns how the lobby has changed, and says so to the listener, if
\* there is one.  The refresh is lost when the event is dropped, because another
\* listener has thrown in the same tick (callbacks.cc, EmitEvent), or when
\* getMembers throws, as it does once the lobby is closed.
MemberStatus(p) ==
  /\ phase[p] \in {"resolved", "connected"}
  /\ cache[p] # members
  /\ cache' = [cache EXCEPT ![p] = members]
  /\ \/ /\ phase[p] = "connected" /\ p \in members
        /\ RefreshPeers(p, cache')
        /\ missed' = [missed EXCEPT ![p] = FALSE]
     \/ /\ missed' = [missed EXCEPT ![p] = phase[p] = "connected"]
        /\ UNCHANGED peerIds
  /\ UNCHANGED <<phase, hostId, handlers, members, network, turns, log, threw>>

-----------------------------------------------------------------------------
(* disconnect().                                                           *)

\* Called while connect() awaits, it finds no lobby to leave.
Disconnect(p) ==
  /\ phase[p] \in {"requested", "resolved", "failed", "connected"}
  /\ Cardinality({q \in Peers : q = p \/ ~handlers[q]}) <= MaxLeavers
  /\ phase' = [phase EXCEPT ![p] =
                  IF @ \in {"failed", "connected"} THEN "leaving" ELSE @]
  /\ handlers' = [handlers EXCEPT ![p] = FALSE]
  /\ UNCHANGED <<peerIds, hostId, missed, lobbyVars, network, turns, log, threw>>

\* The service lets the peer go; the lobby of a host that goes is closed.
Left(p) ==
  /\ Move(p, "leaving", "left")
  /\ members' = IF p = Host THEN {} ELSE members \ {p}
  /\ UNCHANGED <<peerIds, hostId, handlers, missed, cache, network, turns, log,
                 threw>>

-----------------------------------------------------------------------------
(* Turns.                                                                  *)

\* Which of these peers a loop of p2p.send reaches, in the order of peerIds,
\* before one of the sends throws.
Reached(targets) ==
  {targets} \cup
  IF SendsMayFail THEN {{q \in targets : q < f} : f \in targets} ELSE {}

\* Mutation: a packet is relayed to its sender as well.
Others_Echo(p, except) == peerIds[p] \ {p}

\* Whom #relay sends to.
Others(p, except) == peerIds[p] \ {p, except}

\* Mutation: guests send to every peer themselves.
Recipients_Mesh(p) == Others(p, Nobody)

\* Whom send() sends to.
Recipients(p) == IF p = Host THEN Others(p, Nobody) ELSE {hostId[p]}

SendAll(channels, reached, message) ==
  [q \in Peers |-> IF q \in reached THEN Append(channels[q], message)
                   ELSE channels[q]]

\* Mutation: only the host gives its own turns to the engine.
Deliver_HostOnly(p, message, all) ==
  /\ log' = IF handlers[p] /\ all /\ (p = Host \/ message.from # p)
            THEN [log EXCEPT ![p] = Append(@, message)] ELSE log
  /\ threw' = [threw EXCEPT ![p] = @ \/ ~all]

\* #deliver, unless a send has thrown before it.
Deliver(p, message, all) ==
  /\ log' = IF handlers[p] /\ all
            THEN [log EXCEPT ![p] = Append(@, message)] ELSE log
  /\ threw' = [threw EXCEPT ![p] = @ \/ ~all]

\* send().
Send(p) ==
  /\ phase[p] = "connected"
  /\ FoldFunction(LAMBDA a, b : a + b, 0, turns) < MaxTurns
  /\ turns' = [turns EXCEPT ![p] = @ + 1]
  /\ LET message == [from |-> p, turn |-> turns'[p]]
     IN  \E reached \in Reached(Recipients(p)) :
           /\ network' = [network EXCEPT ![p] = SendAll(@, reached, message)]
           /\ Deliver(p, message, reached = Recipients(p))
  /\ UNCHANGED <<seatVars, lobbyVars>>

\* A packet of q is drained at p and #onPacket is called with it: the host
\* relays first, then delivers.
OnPacket(p, q) ==
  /\ phase[p] = "connected"
  /\ network[q][p] # << >>
  /\ LET message == Head(network[q][p])
         targets == IF p = Host THEN Others(p, q) ELSE {}
     IN  \E reached \in Reached(targets) :
           /\ network' = [network EXCEPT ![q][p] = Tail(@),
                                         ![p] = SendAll(@, reached, message)]
           /\ Deliver(p, message, reached = targets)
  /\ UNCHANGED <<seatVars, lobbyVars, turns>>

\* A packet is drained while no listener is attached: connect() has not come to
\* its end, or has failed, or disconnect() has begun.
NobodyListens(p, q) ==
  /\ phase[p] # "connected"
  /\ network[q][p] # << >>
  /\ network' = [network EXCEPT ![q][p] = Tail(@)]
  /\ UNCHANGED <<seatVars, lobbyVars, turns, log, threw>>

-----------------------------------------------------------------------------
Next ==
  \/ \E p \in Peers :
       \/ Connect(p) \/ Enter(p) \/ Entered(p) \/ EnterFails(p)
       \/ Connected(p) \/ ConnectFails(p) \/ MemberStatus(p)
       \/ Disconnect(p) \/ Left(p) \/ Send(p)
  \/ \E p, q \in Peers : OnPacket(p, q) \/ NobodyListens(p, q)

Spec == Init /\ [][Next]_vars

\* The SDKs hear of the lobby's changes, as long as they are ticked.
Fairness == \A p \in Peers : WF_vars(MemberStatus(p))

FairSpec == Spec /\ Fairness

-----------------------------------------------------------------------------
(* Properties.                                                             *)

Before(s, m, n) ==
  \E i, j \in DOMAIN s : i < j /\ s[i] = m /\ s[j] = n

\* lockstep-transport.js:9-11: nobody is given a turn twice, or after a later
\* turn of the same peer, although it went through the host's relay, the host
\* may have left, and sends may have failed.
TurnsInOrder ==
  \A p \in Peers : \A i, j \in DOMAIN log[p] :
    i < j /\ log[p][i].from = log[p][j].from
      => log[p][i].turn < log[p][j].turn

\* What the star is for: two engines see the turns in one order, the host's.
\* A guest's own turns are excepted, which it is given before the host has
\* them.
OneOrder ==
  \A p, q \in Peers : \A m, n \in Range(log[p]) :
    /\ Before(log[p], m, n) /\ Before(log[q], n, m)
    => {m.from, n.from} \cap ({p, q} \ {Host}) # {}

\* lockstep-transport.js:94-96: "Both paths deliver the payload to the local
\* engine as well": a turn another engine has was given to the engine it came
\* from, unless a send of its transport threw or it has disconnected.
OwnTurnsToo ==
  \A p, q \in Peers : \A i \in DOMAIN log[q] :
    log[q][i].from = p =>
      \/ \E j \in DOMAIN log[p] : log[p][j] = log[q][i]
      \/ threw[p] \/ ~handlers[p]

\* lockstep-transport.js:85-86: "Seat order must be identical on every peer":
\* once nobody comes or goes any more, all who listen have the same peers, and
\* they are the lobby's members, except at a transport whose last refresh was
\* lost.
SeatsAgree ==
  <>[](\A p \in members :
         phase[p] = "connected" => peerIds[p] = members \/ missed[p])
=============================================================================
