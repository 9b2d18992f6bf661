----------------------------- MODULE Reassembly -----------------------------
(***************************************************************************)
(* sendLarge of several peers, the network, and the Reassembler of the     *)
(* peer they send to (index.js).  One receiver is modelled: the senders'   *)
(* own reassemblers are independent of it.                                 *)
(*                                                                         *)
(* A payload is abstracted to its slices: a slice says who sent it, which  *)
(* message of that sender it was cut from, which slice of the message it   *)
(* is, and how many bytes it has.  The Map of partial messages is the set  *)
(* `pending`; `born` keeps its insertion order.  The clock is abstracted   *)
(* to the age of each partial message, which stops counting when it is     *)
(* past the TTL.                                                           *)
(***************************************************************************)
EXTENDS Integers, Sequences, FiniteSets, FiniteSetsExt

CONSTANTS
  Peers,            \* the peers that send to this one
  Hole,             \* undefined: a place of a chunks array not yet filled
  Reliability,      \* the reliability option of sendLarge
  MaxPayload,       \* MAX_FRAGMENT_PAYLOAD
  MaxFragments,     \* MAX_FRAGMENTS
  MaxMessageId,     \* 0xffffffff
  MaxPendingBytes,  \* the Reassembler's options
  TtlMs,
  Sizes,            \* the lengths of the payloads applications send
  SendsMayFail,     \* whether p2p.send may throw in the middle of sendLarge
  ClockRuns,        \* whether time passes between two packets
  MaxSends,         \* bound: messages per peer
  MaxFaults         \* bound: restarts, duplicated and foreign packets

ReliabilityModes ==
  {"reliableOrdered", "reliableUnordered", "unreliableUnordered"}

ASSUME ReassemblyAssumption ==
  /\ Reliability \in ReliabilityModes
  /\ MaxPayload \in Nat \ {0}
  /\ MaxFragments \in Nat \ {0}
  /\ MaxMessageId \in Nat \ {0}
  /\ MaxPendingBytes \in Nat
  /\ TtlMs \in Nat
  /\ Sizes \subseteq Nat
  /\ SendsMayFail \in BOOLEAN
  /\ ClockRuns \in BOOLEAN
  /\ MaxSends \in Nat
  /\ MaxFaults \in Nat
  /\ Hole \notin [from : Peers, of : Nat, index : Nat, length : Int]

VARIABLES
  nextMessageId,  \* EosClient.#nextMessageId of each sender
  sent,           \* history: the messages each sender gave to sendLarge
  network,        \* the packets of each sender under way on the fragment channel
  pending,        \* Reassembler.#pending
  bytes,          \* Reassembler.#bytes
  delivered,      \* history: the chunks of each 'p2p:message', by sender
  faults          \* how many of the bounded faults have happened

vars == <<nextMessageId, sent, network, pending, bytes, delivered, faults>>
receiverVars == <<pending, bytes, delivered>>

-----------------------------------------------------------------------------
(* fragment() and sendLarge().                                             *)

\* How many fragments a payload makes: an empty one still makes one.
Total(size) ==
  IF size = 0 THEN 1 ELSE (size + MaxPayload - 1) \div MaxPayload

\* The slice at an index of the k-th message of a sender.
Slice(p, k, size, index) ==
  [from |-> p, of |-> k, index |-> index,
   length |-> IF index + 1 < Total(size) THEN MaxPayload
              ELSE size - index * MaxPayload]

\* The fragments of a payload, in the order sendLarge sends them.
Fragments(p, k, id, size) ==
  [n \in 1..Total(size) |->
     [id |-> id, index |-> n - 1, total |-> Total(size),
      body |-> Slice(p, k, size, n - 1)]]

\* A packet on the fragment channel that is not a fragment: accept() refuses it.
\* (It refuses no packet of 8 bytes or more whose numbers happen to read as those
\* of a fragment; "both ends must be this package", README.md:264, and applications
\* leave the reserved channel alone.)
ForeignPacket == [id |-> 0, index |-> 0, total |-> 0, body |-> Hole]

Init ==
  /\ nextMessageId = [p \in Peers |-> 1]
  /\ sent = [p \in Peers |-> << >>]
  /\ network = [p \in Peers |-> << >>]
  /\ pending = {}
  /\ bytes = 0
  /\ delivered = [p \in Peers |-> << >>]
  /\ faults = 0

\* Mutation: the id wraps around to 0.
SendLarge_WrapsToZero(p, size, n) ==
  /\ Len(sent[p]) < MaxSends
  /\ nextMessageId' =
       [nextMessageId EXCEPT ![p] = (@ + 1) % (MaxMessageId + 1)]
  /\ n = Total(size) /\ Total(size) <= MaxFragments
  /\ sent' = [sent EXCEPT ![p] =
                Append(@, [id |-> nextMessageId[p], size |-> size,
                           whole |-> TRUE])]
  /\ network' = [network EXCEPT ![p] =
       @ \o Fragments(p, Len(sent[p]) + 1, nextMessageId[p], size)]
  /\ UNCHANGED <<receiverVars, faults>>

\* The id is taken before fragment() can refuse the payload, and p2p.send can
\* throw after n of the fragments are out.
SendLarge(p, size, n) ==
  /\ Len(sent[p]) < MaxSends
  /\ nextMessageId' =
       [nextMessageId EXCEPT ![p] = (@ % MaxMessageId) + 1]
  /\ IF Total(size) > MaxFragments
     THEN n = 0 /\ UNCHANGED <<sent, network>>
     ELSE /\ n \in (IF SendsMayFail THEN 0..Total(size) ELSE {Total(size)})
          /\ sent' = [sent EXCEPT ![p] =
                        Append(@, [id |-> nextMessageId[p], size |-> size,
                                   whole |-> n = Total(size)])]
          /\ network' = [network EXCEPT ![p] =
               @ \o SubSeq(Fragments(p, Len(sent[p]) + 1, nextMessageId[p],
                                     size), 1, n)]
  /\ UNCHANGED <<receiverVars, faults>>

-----------------------------------------------------------------------------
(* The Reassembler.                                                        *)

SumBytes(entries) == SumFunction([e \in entries |-> e.bytes])

\* Mutation: an entry younger than the TTL by less than a tick goes as well.
Live_SweepsEarly == {e \in pending : e.age < TtlMs}

\* What #evictExpired leaves.
Live == {e \in pending : e.age <= TtlMs}

\* Mutation: the table is keyed by the message id alone.
HasKey_IgnoresPeer(e, p, id) == e.id = id

HasKey(e, p, id) == e.peer = p /\ e.id = id

\* Mutation: an entry of more fragments is taken for the packet's message.
Continues_AnyShorter(e, packet) == packet.total <= e.total

\* The packet belongs to the entry: a changed total means the id was reused.
Continues(e, packet) == e.total = packet.total

\* Mutation: #drop forgets to give the bytes back.
Freed_Nothing(dropped) == 0

\* What #drop takes off #bytes.
Freed(dropped) == SumBytes(dropped)

NewEntry(p, packet, others) ==
  [peer |-> p, id |-> packet.id, total |-> packet.total,
   chunks |-> [i \in 0..(packet.total - 1) |-> Hole],
   received |-> 0, bytes |-> 0, age |-> 0,
   born |-> 1 + Max({0} \cup {e.born : e \in others})]

Deliver(p, chunks) ==
  delivered' = [delivered EXCEPT ![p] = Append(@, chunks)]

\* Mutation: one entry goes, whether or not the rest fits.
EnforceBudget_Once(entries, held) ==
  LET Older(e) == {f \in entries : f.born < e.born}
      dropped == {e \in entries : held > MaxPendingBytes /\ Older(e) = {}}
  IN  /\ pending' = entries \ dropped
      /\ bytes' = held - Freed(dropped)

\* #enforceBudget: the oldest entries go, until the rest fits.
EnforceBudget(entries, held) ==
  LET Older(e) == {f \in entries : f.born < e.born}
      dropped == {e \in entries : held - Freed(Older(e)) > MaxPendingBytes}
  IN  /\ pending' = entries \ dropped
      /\ bytes' = held - Freed(dropped)

\* Mutation: a repeated fragment is counted again.
IsFree_Always(entry, index) == TRUE

IsFree(entry, index) == entry.chunks[index] = Hole

\* A packet of a message of several fragments: sweep the expired entries, find
\* or start the entry (a changed total starts over), fill its place.
Store(p, packet) ==
  LET mine == {e \in Live : HasKey(e, p, packet.id)}
      same == {e \in mine : Continues(e, packet)}
      others == Live \ mine
      held == bytes - Freed(pending \ Live) - Freed(mine \ same)
      entry == IF same # {} THEN CHOOSE e \in same : TRUE
               ELSE NewEntry(p, packet, others)
      length == packet.body.length
      filled == [entry EXCEPT !.chunks[packet.index] = packet.body,
                              !.received = @ + 1,
                              !.bytes = @ + length,
                              !.age = 0]
  IN  \/ /\ ~IsFree(entry, packet.index)
         /\ pending' = Live
         /\ bytes' = held
         /\ UNCHANGED delivered
      \/ /\ IsFree(entry, packet.index)
         /\ filled.received = filled.total
         /\ pending' = others
         /\ bytes' = held + length - filled.bytes
         /\ Deliver(p, filled.chunks)
      \/ /\ IsFree(entry, packet.index)
         /\ filled.received # filled.total
         /\ EnforceBudget(others \cup {filled}, held + length)
         /\ UNCHANGED delivered

IsFragment(packet) == packet.total > 0 /\ packet.index < packet.total

Accept(p, packet) ==
  \/ ~IsFragment(packet) /\ UNCHANGED receiverVars
  \/ /\ IsFragment(packet) /\ packet.total = 1
     /\ Deliver(p, [i \in {0} |-> packet.body])
     /\ UNCHANGED <<pending, bytes>>
  \/ IsFragment(packet) /\ packet.total > 1 /\ Store(p, packet)

-----------------------------------------------------------------------------
(* The network, as the reliability option promises it, and the clock.  A   *)
(* packet that is lost is one that is never received.                      *)

Without(s, i) == SubSeq(s, 1, i - 1) \o SubSeq(s, i + 1, Len(s))

\* The places a next packet may come from.
Deliverable(p) ==
  {i \in DOMAIN network[p] : Reliability = "reliableOrdered" => i = 1}

Receive(p) ==
  \E i \in Deliverable(p) :
    /\ Accept(p, network[p][i])
    /\ network' = [network EXCEPT ![p] = Without(@, i)]
    /\ UNCHANGED <<nextMessageId, sent, faults>>

Fault == faults < MaxFaults /\ faults' = faults + 1

DuplicatePacket(p) ==
  /\ Fault
  /\ Reliability = "unreliableUnordered"
  /\ \E i \in DOMAIN network[p] :
       network' = [network EXCEPT ![p] = Append(@, network[p][i])]
  /\ UNCHANGED <<nextMessageId, sent, receiverVars>>

\* The peer's application uses the fragment channel for packets of its own.
SendForeign(p) ==
  /\ Fault
  /\ network' = [network EXCEPT ![p] = Append(@, ForeignPacket)]
  /\ UNCHANGED <<nextMessageId, sent, receiverVars>>

\* A sender's process starts anew, with the same user: its ids start over, and
\* what it had not put on the wire is lost.
SenderRestart(p) ==
  /\ Fault
  /\ nextMessageId' = [nextMessageId EXCEPT ![p] = 1]
  /\ \E n \in 0..Len(network[p]) :
       network' = [network EXCEPT ![p] = SubSeq(@, 1, n)]
  /\ UNCHANGED <<sent, receiverVars>>

\* shutdown() clears the table.  The next packets reach the next process.
ReceiverRestart ==
  /\ Fault
  /\ pending' = {}
  /\ bytes' = 0
  /\ network' \in {network, [p \in Peers |-> << >>]}
  /\ UNCHANGED <<nextMessageId, sent, delivered>>

TimePasses ==
  /\ ClockRuns
  /\ \E e \in pending : e.age <= TtlMs
  /\ pending' = {[e EXCEPT !.age = IF @ > TtlMs THEN @ ELSE @ + 1]
                   : e \in pending}
  /\ UNCHANGED <<nextMessageId, sent, network, bytes, delivered, faults>>

Send(p) == \E size \in Sizes : \E n \in 0..Total(size) : SendLarge(p, size, n)

Next ==
  \/ \E p \in Peers :
       \/ Send(p) \/ Receive(p) \/ DuplicatePacket(p)
       \/ SendForeign(p) \/ SenderRestart(p)
  \/ ReceiverRestart
  \/ TimePasses

Spec == Init /\ [][Next]_vars

-----------------------------------------------------------------------------
(* Properties.                                                             *)

Slices == [from : Peers, of : 1..MaxSends, index : Nat, length : 0..MaxPayload]
Entries(t) == [peer : Peers, id : 1..MaxMessageId, total : {t},
               chunks : [0..(t - 1) -> Slices \cup {Hole}],
               received : 1..(t - 1), bytes : Nat, age : 0..(TtlMs + 1),
               born : Nat \ {0}]

\* The table is a Map that remembers the order its keys were set in.
TableIsMap ==
  \A e, f \in pending :
    e # f => <<e.peer, e.id>> # <<f.peer, f.id>> /\ e.born # f.born

TypeOK ==
  /\ nextMessageId \in [Peers -> 1..MaxMessageId]
  /\ sent \in [Peers -> Seq([id : 1..MaxMessageId, size : Sizes,
                             whole : BOOLEAN])]
  /\ \A p \in Peers : \A i \in DOMAIN network[p] :
       \/ network[p][i] = ForeignPacket
       \/ /\ network[p][i].total \in 1..MaxFragments
          /\ network[p][i].index \in 0..(network[p][i].total - 1)
          /\ network[p][i].body \in Slices
  /\ \A e \in pending : e.total \in 2..MaxFragments /\ e \in Entries(e.total)
  /\ TableIsMap
  /\ bytes \in Nat
  /\ faults \in 0..MaxFaults

Filled(chunks) == {i \in DOMAIN chunks : chunks[i] # Hole}

\* The bytes of the slices in a chunks array.
BytesOf(chunks) == SumFunction([i \in Filled(chunks) |-> chunks[i].length])

\* However packets are lost, repeated, reordered, evicted and swept, #bytes is
\* the number of bytes the table holds, entry by entry, and an entry knows how
\* many of its places are filled.  (A drift would make #enforceBudget evict
\* for ever, or never.)
ByteAccounting ==
  /\ bytes = SumBytes(pending)
  /\ \A e \in pending :
       /\ e.received = Cardinality(Filled(e.chunks))
       /\ e.bytes = BytesOf(e.chunks)

\* Partial messages never hold more than the budget, whichever peers they come
\* from ("a peer cannot hold memory indefinitely", fragment.test.js).
WithinBudget == bytes <= MaxPendingBytes

\* A slice stands in its place in one of a sender's messages that has this id
\* and this total.
StandsAt(p, messages, slice, id, total, i) ==
  /\ slice # Hole
  /\ slice.of \in DOMAIN messages
  /\ messages[slice.of].id = id
  /\ Total(messages[slice.of].size) = total
  /\ slice = Slice(p, slice.of, messages[slice.of].size, i)

\* Whatever the network does, whoever restarts and however often ids wrap, a
\* delivered message is complete, in order, and made of slices that its own
\* peer sent under one id and one total: it can only be wrong when the peer
\* used an id twice for messages of the same number of fragments.
WrongOnlyIfIdReused ==
  \A p \in Peers : \A n \in DOMAIN delivered[p] :
    \E id \in 1..MaxMessageId, total \in 1..MaxFragments :
      /\ DOMAIN delivered[p][n] = 0..(total - 1)
      /\ \A i \in 0..(total - 1) :
           StandsAt(p, sent[p], delivered[p][n][i], id, total, i)

\* The number of the message whose slices these are, or 0: a mixture.
MessageOf(p, chunks) ==
  LET Whole(k) == chunks = [i \in 0..(Total(sent[p][k].size) - 1) |->
                              Slice(p, k, sent[p][k].size, i)]
  IN  IF \E k \in DOMAIN sent[p] : Whole(k)
      THEN CHOOSE k \in DOMAIN sent[p] : Whole(k)
      ELSE 0

\* index.js:206-207: "start over rather than mixing two messages together":
\* every 'p2p:message' is a message that was sent.
NoMixing ==
  \A p \in Peers : \A n \in DOMAIN delivered[p] :
    MessageOf(p, delivered[p][n]) # 0

\* No peer gave one id to two messages of as many fragments.
IdsUnique ==
  \A p \in Peers : \A j, k \in DOMAIN sent[p] :
    /\ sent[p][j].id = sent[p][k].id
    /\ Total(sent[p][j].size) = Total(sent[p][k].size)
    => j = k

\* Repeats, losses, reordering, sweeps and evictions never make a message that
\* nobody sent: what is delivered in the name of a peer is a message of that
\* peer, whole, unless the peer used an id twice.
IntactWhileIdsUnique == IdsUnique => NoMixing

\* While no peer uses an id twice and nothing is repeated on the way, sendLarge
\* and 'p2p:message' are the channel of module MessageChannel.
Channel == INSTANCE MessageChannel WITH
  InOrder <- Reliability = "reliableOrdered",
  sent <- [p \in Peers |-> Len(sent[p])],
  delivered <- [p \in Peers |->
    [n \in DOMAIN delivered[p] |-> MessageOf(p, delivered[p][n])]]

ImplementsChannel == Channel!Spec

SameEntry(e, f) == e.peer = f.peer /\ e.id = f.id /\ e.total = f.total

\* A partial message that is not past its TTL is dropped for a reason: it was
\* completed, its id came back with another total, the table was cleared, or
\* it was among the oldest of a table that no longer fitted, and the budget
\* had no room for all the entries that went.
DroppedForAReason ==
  LET gone == {e \in pending : ~ \E f \in pending' : SameEntry(e, f)}
  IN  \A e \in gone :
        \/ e.age > TtlMs
        \/ pending' = {} /\ faults' # faults
        \/ delivered'[e.peer] # delivered[e.peer]
        \/ \E f \in pending' :
             f.peer = e.peer /\ f.id = e.id /\ f.total # e.total
        \/ /\ \A f \in pending' : e.born < f.born
           /\ \E g \in gone : /\ e.born <= g.born
                            /\ bytes' + g.bytes + MaxPayload > MaxPendingBytes

DropsOnlyForAReason == [][DroppedForAReason]_vars
=============================================================================
