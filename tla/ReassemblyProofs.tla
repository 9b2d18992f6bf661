-------------------------- MODULE ReassemblyProofs --------------------------
(***************************************************************************)
(* What a 'p2p:message' is made of, for any number of peers, any sizes and *)
(* any budget, whatever the network loses, repeats or reorders and whoever *)
(* restarts.                                                               *)
(*                                                                         *)
(* The invariant follows a slice on its way: in the network and in the     *)
(* table it stands under the id, the total and the index it was sent with, *)
(* and an entry counts exactly the places that are filled, so that an      *)
(* entry that is complete has no hole.                                     *)
(*                                                                         *)
(* Two further parts rest on it: over a reliable transport the model       *)
(* implements module MessageChannel as long as no id is used twice, and a  *)
(* peer that is not restarted uses none twice before its ids wrap around.  *)
(***************************************************************************)
EXTENDS Reassembly, FiniteSetTheorems, TLAPS

SentType == [id : 1..MaxMessageId, size : Nat, whole : BOOLEAN]
Bodies == [from : Peers, of : Nat, index : Nat, length : Int] \cup {Hole}
PacketType == [id : Nat, index : Nat, total : Nat, body : Bodies]
Chunks == UNION {[0..(t - 1) -> Bodies] : t \in Nat}

\* A fragment carries a slice of one of the messages, under its header.
GenuinePacket(p, messages, packet) ==
  /\ packet.id \in 1..MaxMessageId
  /\ packet.total \in 1..MaxFragments
  /\ packet.index \in 0..(packet.total - 1)
  /\ StandsAt(p, messages, packet.body, packet.id, packet.total, packet.index)

\* The places of an entry hold slices of messages with its header, or nothing.
GenuineEntry(p, messages, e) ==
  /\ e = [peer |-> e.peer, id |-> e.id, total |-> e.total,
          chunks |-> e.chunks, received |-> e.received, bytes |-> e.bytes,
          age |-> e.age, born |-> e.born]
  /\ e.id \in 1..MaxMessageId
  /\ e.total \in 1..MaxFragments
  /\ e.chunks \in [0..(e.total - 1) -> Bodies]
  /\ \A i \in 0..(e.total - 1) :
       e.chunks[i] # Hole
         => StandsAt(p, messages, e.chunks[i], e.id, e.total, i)
  /\ e.received = Cardinality(Filled(e.chunks))

GenuineMessage(p, messages, chunks) ==
  \E id \in 1..MaxMessageId, total \in 1..MaxFragments :
    /\ DOMAIN chunks = 0..(total - 1)
    /\ \A i \in 0..(total - 1) : StandsAt(p, messages, chunks[i], id, total, i)

SendersInv ==
  /\ nextMessageId \in [Peers -> 1..MaxMessageId]
  /\ sent \in [Peers -> Seq(SentType)]

NetworkInv ==
  /\ network \in [Peers -> Seq(PacketType)]
  /\ \A p \in Peers : \A i \in DOMAIN network[p] :
       network[p][i] = ForeignPacket \/ GenuinePacket(p, sent[p], network[p][i])

PendingInv ==
  \A e \in pending : e.peer \in Peers /\ GenuineEntry(e.peer, sent[e.peer], e)

DeliveredInv ==
  /\ delivered \in [Peers -> Seq(Chunks)]
  /\ \A p \in Peers : \A n \in DOMAIN delivered[p] :
       GenuineMessage(p, sent[p], delivered[p][n])

ReassemblyInv == SendersInv /\ NetworkInv /\ PendingInv /\ DeliveredInv

-----------------------------------------------------------------------------
(* Slices, and the messages they were cut from.                            *)

LEMMA TotalIsNat == ASSUME NEW size \in Nat PROVE Total(size) \in Nat
  BY ReassemblyAssumption DEF Total

\* A slice is not a hole.
LEMMA SliceIsBody ==
  ASSUME NEW p \in Peers, NEW k \in Nat, NEW size \in Nat, NEW index \in Nat
  PROVE  Slice(p, k, size, index) \in Bodies /\ Slice(p, k, size, index) # Hole
<1>1. size - index * MaxPayload \in Int /\ MaxPayload \in Int
  BY ReassemblyAssumption
<1>2. Slice(p, k, size, index)
        \in [from : Peers, of : Nat, index : Nat, length : Int]
  BY <1>1 DEF Slice
<1> QED
  BY <1>2, ReassemblyAssumption DEF Bodies

\* What was said of a slice remains true while messages are only added.
LEMMA StandsAtStable ==
  ASSUME NEW p, NEW messages, NEW more,
         \A k \in DOMAIN messages : k \in DOMAIN more /\ more[k] = messages[k]
  PROVE  \A slice, id, total, i :
           StandsAt(p, messages, slice, id, total, i)
             => StandsAt(p, more, slice, id, total, i)
BY DEF StandsAt

LEMMA GenuineStable ==
  ASSUME NEW p, NEW messages, NEW more,
         \A k \in DOMAIN messages : k \in DOMAIN more /\ more[k] = messages[k]
  PROVE  /\ \A packet : GenuinePacket(p, messages, packet)
                          => GenuinePacket(p, more, packet)
         /\ \A e : GenuineEntry(p, messages, e) => GenuineEntry(p, more, e)
         /\ \A chunks : GenuineMessage(p, messages, chunks)
                          => GenuineMessage(p, more, chunks)
<1>1. \A packet : GenuinePacket(p, messages, packet)
                    => GenuinePacket(p, more, packet)
  BY StandsAtStable DEF GenuinePacket
<1>2. \A e : GenuineEntry(p, messages, e) => GenuineEntry(p, more, e)
  BY StandsAtStable DEF GenuineEntry
<1>3. \A chunks : GenuineMessage(p, messages, chunks)
                    => GenuineMessage(p, more, chunks)
  BY StandsAtStable DEF GenuineMessage
<1> QED
  BY <1>1, <1>2, <1>3

LEMMA InitInv == Init => ReassemblyInv
<1> SUFFICES ASSUME Init PROVE ReassemblyInv
  OBVIOUS
<1>1. SendersInv
  BY ReassemblyAssumption DEF Init, SendersInv
<1>2. NetworkInv
  BY DEF Init, NetworkInv
<1>3. PendingInv
  BY DEF Init, PendingInv
<1>4. DeliveredInv
  BY DEF Init, DeliveredInv
<1> QED
  BY <1>1, <1>2, <1>3, <1>4 DEF ReassemblyInv

-----------------------------------------------------------------------------
(* Sending.                                                                *)

\* A fragment is a packet with the header of its message, and a real slice.
LEMMA FragmentIsPacket ==
  ASSUME NEW p \in Peers, NEW k \in Nat, NEW id \in 1..MaxMessageId,
         NEW size \in Nat, NEW n \in 1..Total(size)
  PROVE  /\ Fragments(p, k, id, size)[n] =
              [id |-> id, index |-> n - 1, total |-> Total(size),
               body |-> Slice(p, k, size, n - 1)]
         /\ Fragments(p, k, id, size)[n] \in PacketType
         /\ Slice(p, k, size, n - 1) # Hole
         /\ Slice(p, k, size, n - 1).of = k
<1>1. n - 1 \in Nat /\ Total(size) \in Nat
  BY TotalIsNat
<1>2. Slice(p, k, size, n - 1) \in Bodies /\ Slice(p, k, size, n - 1) # Hole
  BY <1>1, SliceIsBody
<1>3. Slice(p, k, size, n - 1).of = k
  BY DEF Slice
<1>4. Fragments(p, k, id, size)[n] =
        [id |-> id, index |-> n - 1, total |-> Total(size),
         body |-> Slice(p, k, size, n - 1)]
  BY DEF Fragments
<1>5. Fragments(p, k, id, size)[n] \in PacketType
  BY <1>1, <1>2, <1>4, ReassemblyAssumption DEF PacketType
<1> QED
  BY <1>2, <1>3, <1>4, <1>5

LEMMA FragmentsAreSequence ==
  ASSUME NEW p \in Peers, NEW k \in Nat, NEW id \in 1..MaxMessageId,
         NEW size \in Nat, NEW n \in 0..Total(size)
  PROVE  /\ SubSeq(Fragments(p, k, id, size), 1, n) \in Seq(PacketType)
         /\ Len(SubSeq(Fragments(p, k, id, size), 1, n)) = n
         /\ \A j \in 1..n :
              SubSeq(Fragments(p, k, id, size), 1, n)[j]
                = Fragments(p, k, id, size)[j]
<1> DEFINE F == Fragments(p, k, id, size)
<1>1. Total(size) \in Nat
  BY TotalIsNat
<1>2. F = [j \in 1..Total(size) |-> F[j]]
  BY DEF Fragments
<1>3. \A j \in 1..Total(size) : F[j] \in PacketType
  BY FragmentIsPacket
<1> HIDE DEF F
<1>4. F \in Seq(PacketType) /\ Len(F) = Total(size)
  BY <1>1, <1>2, <1>3
<1>5. /\ SubSeq(F, 1, n) \in Seq(PacketType) /\ Len(SubSeq(F, 1, n)) = n
      /\ \A j \in 1..n : SubSeq(F, 1, n)[j] = F[j]
  BY <1>1, <1>4
<1> QED
  BY <1>5 DEF F

LEMMA SendLargeInv ==
  ASSUME ReassemblyInv, NEW p \in Peers, NEW size \in Sizes,
         NEW n \in 0..Total(size), SendLarge(p, size, n)
  PROVE  ReassemblyInv'
<1> DEFINE k == Len(sent[p]) + 1
           id == nextMessageId[p]
           message == [id |-> id, size |-> size, whole |-> n = Total(size)]
           pieces == SubSeq(Fragments(p, k, id, size), 1, n)
<1>1. /\ size \in Nat /\ Total(size) \in Nat
      /\ k \in Nat /\ id \in 1..MaxMessageId
  BY ReassemblyAssumption, TotalIsNat DEF ReassemblyInv, SendersInv
<1>2. nextMessageId' \in [Peers -> 1..MaxMessageId]
  <2>1. (id % MaxMessageId) + 1 \in 1..MaxMessageId
    BY <1>1, ReassemblyAssumption
  <2> QED
    BY <2>1 DEF SendLarge, ReassemblyInv, SendersInv
<1>3. UNCHANGED <<pending, delivered>>
  BY DEF SendLarge, receiverVars
<1>4. CASE Total(size) > MaxFragments
  <2>1. UNCHANGED <<sent, network>>
    BY <1>4 DEF SendLarge
  <2>2. NetworkInv' /\ PendingInv' /\ DeliveredInv'
    BY <2>1, <1>3
       DEF ReassemblyInv, NetworkInv, PendingInv, DeliveredInv, GenuinePacket,
           GenuineEntry, GenuineMessage, StandsAt
  <2> QED
    BY <1>2, <2>1, <2>2 DEF ReassemblyInv, SendersInv
<1>5. CASE ~(Total(size) > MaxFragments)
  <2>1. /\ sent' = [sent EXCEPT ![p] = Append(@, message)]
        /\ network' = [network EXCEPT ![p] = @ \o pieces]
    BY <1>5 DEF SendLarge
  <2>2. message \in SentType
    BY <1>1 DEF SentType
  <2>3. message.id = id /\ message.size = size
    OBVIOUS
  <2> HIDE DEF message
  <2>4. /\ sent' \in [Peers -> Seq(SentType)]
        /\ sent'[p][k] = message /\ k \in DOMAIN sent'[p]
        /\ \A q \in Peers : \A j \in DOMAIN sent[q] :
             j \in DOMAIN sent'[q] /\ sent'[q][j] = sent[q][j]
    BY <2>1, <2>2 DEF ReassemblyInv, SendersInv
  <2>5. SendersInv'
    BY <1>2, <2>4 DEF SendersInv
  <2>6. ASSUME NEW j \in 1..n
        PROVE  pieces[j] \in PacketType /\ GenuinePacket(p, sent'[p], pieces[j])
    <3>1. /\ pieces[j] = [id |-> id, index |-> j - 1, total |-> Total(size),
                          body |-> Slice(p, k, size, j - 1)]
          /\ pieces[j] \in PacketType
          /\ Slice(p, k, size, j - 1) # Hole /\ Slice(p, k, size, j - 1).of = k
      <4>1. j \in 1..Total(size)
        BY <1>1
      <4>2. pieces[j] = Fragments(p, k, id, size)[j]
        BY <1>1, FragmentsAreSequence
      <4> HIDE DEF pieces
      <4> QED
        BY <1>1, <4>1, <4>2, FragmentIsPacket
    <3>2. StandsAt(p, sent'[p], Slice(p, k, size, j - 1), id, Total(size),
                   j - 1)
      BY <2>3, <2>4, <3>1 DEF StandsAt
    <3>3. /\ Total(size) \in 1..MaxFragments
          /\ j - 1 \in 0..(Total(size) - 1)
      BY <1>1, <1>5, ReassemblyAssumption
    <3> QED
      BY <1>1, <3>1, <3>2, <3>3 DEF GenuinePacket
  <2>7. pieces \in Seq(PacketType) /\ Len(pieces) = n
    BY <1>1, FragmentsAreSequence
  <2> HIDE DEF pieces
  <2>9. network' \in [Peers -> Seq(PacketType)]
    BY <2>1, <2>7 DEF ReassemblyInv, NetworkInv
  <2>10. ASSUME NEW q \in Peers, NEW i \in DOMAIN network'[q]
         PROVE  \/ network'[q][i] = ForeignPacket
                \/ GenuinePacket(q, sent'[q], network'[q][i])
    <3>1. network[q] \in Seq(PacketType)
      BY DEF ReassemblyInv, NetworkInv
    <3>2. CASE i \in DOMAIN network[q]
      <4>1. network'[q][i] = network[q][i]
        BY <2>1, <2>7, <3>1, <3>2 DEF ReassemblyInv, NetworkInv
      <4>2. \/ network[q][i] = ForeignPacket
            \/ GenuinePacket(q, sent[q], network[q][i])
        BY <3>2 DEF ReassemblyInv, NetworkInv
      <4> QED
        BY <2>4, <4>1, <4>2, GenuineStable
    <3>3. CASE i \notin DOMAIN network[q]
      <4>1. q = p /\ i - Len(network[p]) \in 1..n
            /\ network'[q][i] = pieces[i - Len(network[p])]
        BY <2>1, <2>7, <3>1, <3>3 DEF ReassemblyInv, NetworkInv
      <4> QED
        BY <2>6, <4>1
    <3> QED
      BY <3>2, <3>3
  <2>11. NetworkInv'
    BY <2>9, <2>10 DEF NetworkInv
  <2>12. PendingInv'
    BY <1>3, <2>4, GenuineStable DEF ReassemblyInv, PendingInv
  <2>13. DeliveredInv'
    BY <1>3, <2>4, GenuineStable DEF ReassemblyInv, DeliveredInv
  <2> QED
    BY <2>5, <2>11, <2>12, <2>13 DEF ReassemblyInv
<1> QED
  BY <1>4, <1>5

-----------------------------------------------------------------------------
(* Receiving.                                                              *)

\* The places of a chunks array are finitely many, and all of them are filled
\* when their number says so.
LEMMA FilledIsFinite ==
  ASSUME NEW t \in Nat, NEW chunks \in [0..(t - 1) -> Bodies]
  PROVE  /\ IsFiniteSet(Filled(chunks)) /\ Filled(chunks) \subseteq 0..(t - 1)
         /\ Cardinality(Filled(chunks)) = t => Filled(chunks) = 0..(t - 1)
<1>1. Filled(chunks) \subseteq 0..(t - 1)
  BY DEF Filled
<1>2. IsFiniteSet(0..(t - 1)) /\ Cardinality(0..(t - 1)) = t
  <2>1. 0 \in Int /\ t - 1 \in Int
    OBVIOUS
  <2>2. /\ IsFiniteSet(0..(t - 1))
        /\ Cardinality(0..(t - 1)) = IF 0 > t - 1 THEN 0 ELSE (t - 1) - 0 + 1
    BY <2>1, FS_Interval
  <2> QED
    BY <2>2
<1>3. IsFiniteSet(Filled(chunks))
  BY <1>1, <1>2, FS_Subset
<1>4. ASSUME Cardinality(Filled(chunks)) = t PROVE Filled(chunks) = 0..(t - 1)
  BY <1>1, <1>2, <1>4, FS_Subset
<1> QED
  BY <1>1, <1>3, <1>4

\* What Store makes of the entry a fragment belongs to.
Fill(e, index, body, length) ==
  [e EXCEPT !.chunks[index] = body, !.received = @ + 1,
            !.bytes = @ + length, !.age = 0]

\* Filling a free place keeps an entry genuine.
LEMMA FillKeepsGenuine ==
  ASSUME NEW p, NEW messages, NEW e, NEW index, NEW body, NEW length,
         GenuineEntry(p, messages, e),
         index \in 0..(e.total - 1), e.chunks[index] = Hole,
         body \in Bodies, StandsAt(p, messages, body, e.id, e.total, index)
  PROVE  /\ GenuineEntry(p, messages, Fill(e, index, body, length))
         /\ Fill(e, index, body, length).peer = e.peer
<1> DEFINE f == Fill(e, index, body, length)
<1>1. e.total \in Nat /\ e.chunks \in [0..(e.total - 1) -> Bodies]
  BY DEF GenuineEntry
<1>2. f = [peer |-> e.peer, id |-> e.id, total |-> e.total,
           chunks |-> [e.chunks EXCEPT ![index] = body],
           received |-> e.received + 1, bytes |-> e.bytes + length,
           age |-> 0, born |-> e.born]
  <2>1. e = [peer |-> e.peer, id |-> e.id, total |-> e.total,
             chunks |-> e.chunks, received |-> e.received, bytes |-> e.bytes,
             age |-> e.age, born |-> e.born]
    BY DEF GenuineEntry
  <2>2. f = [e EXCEPT !.chunks[index] = body, !.received = @ + 1,
                      !.bytes = @ + length, !.age = 0]
    BY DEF Fill
  <2> HIDE DEF f
  <2> QED
    BY <2>1, <2>2
<1> HIDE DEF f
<1>3. f.chunks = [e.chunks EXCEPT ![index] = body]
  BY <1>2
<1>4. f.chunks \in [0..(e.total - 1) -> Bodies]
  BY <1>1, <1>3
<1>5. \A i \in 0..(e.total - 1) :
        f.chunks[i] # Hole
          => StandsAt(p, messages, f.chunks[i], e.id, e.total, i)
  BY <1>1, <1>3 DEF GenuineEntry
<1>6. f.received = Cardinality(Filled(f.chunks))
  <2>1. body # Hole
    BY DEF StandsAt
  <2>2. /\ Filled(f.chunks) = Filled(e.chunks) \cup {index}
        /\ index \notin Filled(e.chunks)
    BY <1>1, <1>3, <2>1 DEF Filled
  <2>3. IsFiniteSet(Filled(e.chunks))
    BY <1>1, FilledIsFinite
  <2>4. Cardinality(Filled(f.chunks)) = Cardinality(Filled(e.chunks)) + 1
    BY <2>2, <2>3, FS_AddElement
  <2> QED
    BY <1>2, <2>4 DEF GenuineEntry
<1>7. GenuineEntry(p, messages, f) /\ f.peer = e.peer
  BY <1>2, <1>4, <1>5, <1>6 DEF GenuineEntry
<1> QED
  BY <1>7 DEF f

\* A complete entry is a message.
LEMMA CompleteIsMessage ==
  ASSUME NEW p, NEW messages, NEW e, GenuineEntry(p, messages, e),
         e.received = e.total
  PROVE  GenuineMessage(p, messages, e.chunks) /\ e.chunks \in Chunks
<1>1. e.total \in Nat /\ e.chunks \in [0..(e.total - 1) -> Bodies]
  BY DEF GenuineEntry
<1>2. Filled(e.chunks) = 0..(e.total - 1)
  BY <1>1, FilledIsFinite DEF GenuineEntry
<1>3. \A i \in 0..(e.total - 1) :
        StandsAt(p, messages, e.chunks[i], e.id, e.total, i)
  BY <1>2 DEF GenuineEntry, Filled
<1>4. e.chunks \in Chunks
  BY <1>1 DEF Chunks
<1>5. DOMAIN e.chunks = 0..(e.total - 1)
  BY <1>1
<1> QED
  BY <1>3, <1>4, <1>5 DEF GenuineEntry, GenuineMessage

\* A new entry is genuine: nothing is filled.
LEMMA NewEntryIsGenuine ==
  ASSUME NEW p, NEW messages, NEW packet \in PacketType, NEW others,
         GenuinePacket(p, messages, packet)
  PROVE  /\ GenuineEntry(p, messages, NewEntry(p, packet, others))
         /\ NewEntry(p, packet, others).peer = p
         /\ NewEntry(p, packet, others).id = packet.id
         /\ NewEntry(p, packet, others).total = packet.total
<1> DEFINE e == NewEntry(p, packet, others)
<1>1. /\ e.peer = p /\ e.id = packet.id /\ e.total = packet.total
      /\ e.chunks = [i \in 0..(packet.total - 1) |-> Hole] /\ e.received = 0
      /\ e = [peer |-> e.peer, id |-> e.id, total |-> e.total,
              chunks |-> e.chunks, received |-> e.received, bytes |-> e.bytes,
              age |-> e.age, born |-> e.born]
  BY DEF NewEntry
<1> HIDE DEF e
<1>2. Filled(e.chunks) = {}
  BY <1>1 DEF Filled
<1>3. Cardinality(Filled(e.chunks)) = 0
  BY <1>2, FS_EmptySet
<1>4. e.chunks \in [0..(e.total - 1) -> Bodies]
  BY <1>1 DEF Bodies
<1>5. GenuineEntry(p, messages, e)
  BY <1>1, <1>3, <1>4 DEF GenuineEntry, GenuinePacket
<1> QED
  BY <1>1, <1>5 DEF e

\* What the receiver's steps have in common: it leaves the senders alone.
ReceiverInv == PendingInv /\ DeliveredInv

LEMMA DeliverInv ==
  ASSUME ReassemblyInv, UNCHANGED sent, NEW p \in Peers, NEW chunks \in Chunks,
         GenuineMessage(p, sent[p], chunks), Deliver(p, chunks)
  PROVE  DeliveredInv'
<1>1. delivered \in [Peers -> Seq(Chunks)]
  BY DEF ReassemblyInv, DeliveredInv
<1>2. /\ delivered' \in [Peers -> Seq(Chunks)]
      /\ \A q \in Peers : \A n \in DOMAIN delivered'[q] :
           \/ n \in DOMAIN delivered[q] /\ delivered'[q][n] = delivered[q][n]
           \/ q = p /\ delivered'[q][n] = chunks
  BY <1>1 DEF Deliver
<1> QED
  BY <1>2 DEF ReassemblyInv, DeliveredInv

LEMMA StoreInv ==
  ASSUME ReassemblyInv, UNCHANGED sent, NEW p \in Peers,
         NEW packet \in PacketType, GenuinePacket(p, sent[p], packet),
         Store(p, packet)
  PROVE  ReceiverInv'
<1> DEFINE mine == {e \in Live : HasKey(e, p, packet.id)}
           same == {e \in mine : e.total = packet.total}
           others == Live \ mine
           held == bytes - Freed(pending \ Live) - Freed(mine \ same)
           entry == IF same # {} THEN CHOOSE e \in same : TRUE
                    ELSE NewEntry(p, packet, others)
           length == packet.body.length
           filled == Fill(entry, packet.index, packet.body, length)
<1>1. Live \subseteq pending
  BY DEF Live
<1>2. /\ GenuineEntry(p, sent[p], entry)
      /\ entry.peer = p /\ entry.id = packet.id /\ entry.total = packet.total
  <2>1. CASE same # {}
    <3>1. entry \in same
      BY <2>1
    <3>2. entry \in pending /\ entry.peer = p /\ entry.id = packet.id
          /\ entry.total = packet.total
      BY <1>1, <3>1 DEF HasKey
    <3> QED
      BY <3>2 DEF ReassemblyInv, PendingInv
  <2>2. CASE same = {}
    <3>1. entry = NewEntry(p, packet, others)
      BY <2>2
    <3> QED
      BY <3>1, NewEntryIsGenuine
  <2> QED
    BY <2>1, <2>2
<1>3. others \subseteq pending
  BY <1>1
<1>4. \/ pending' = Live /\ UNCHANGED delivered
      \/ /\ IsFree(entry, packet.index) /\ filled.received = filled.total
         /\ pending' = others /\ Deliver(p, filled.chunks)
      \/ /\ IsFree(entry, packet.index)
         /\ pending' \subseteq others \cup {filled} /\ UNCHANGED delivered
  BY DEF Store, Continues, EnforceBudget, Fill
<1> HIDE DEF entry, others
<1>5. ASSUME IsFree(entry, packet.index)
      PROVE  GenuineEntry(p, sent[p], filled) /\ filled.peer = p
  <2>1. /\ packet.index \in 0..(entry.total - 1) /\ packet.body \in Bodies
        /\ StandsAt(p, sent[p], packet.body, entry.id, entry.total,
                    packet.index)
    BY <1>2 DEF GenuinePacket, PacketType
  <2>2. entry.chunks[packet.index] = Hole
    BY <1>5 DEF IsFree
  <2> QED
    BY <1>2, <2>1, <2>2, FillKeepsGenuine
<1> HIDE DEF filled
<1>6. CASE pending' = Live /\ UNCHANGED delivered
  BY <1>1, <1>6 DEF ReassemblyInv, ReceiverInv, PendingInv, DeliveredInv
<1>7. CASE /\ IsFree(entry, packet.index) /\ filled.received = filled.total
           /\ pending' = others /\ Deliver(p, filled.chunks)
  <2>1. filled.chunks \in Chunks /\ GenuineMessage(p, sent[p], filled.chunks)
    BY <1>5, <1>7, CompleteIsMessage
  <2>2. DeliveredInv'
    BY <1>7, <2>1, DeliverInv
  <2>3. PendingInv'
    BY <1>3, <1>7 DEF ReassemblyInv, PendingInv
  <2> QED
    BY <2>2, <2>3 DEF ReceiverInv
<1>8. CASE /\ IsFree(entry, packet.index)
           /\ pending' \subseteq others \cup {filled} /\ UNCHANGED delivered
  <2>1. DeliveredInv'
    BY <1>8 DEF ReassemblyInv, DeliveredInv
  <2>2. PendingInv'
    BY <1>3, <1>5, <1>8 DEF ReassemblyInv, PendingInv
  <2> QED
    BY <2>1, <2>2 DEF ReceiverInv
<1> QED
  BY <1>4, <1>6, <1>7, <1>8

\* A message of one fragment is delivered as it is.
LEMMA SingleInv ==
  ASSUME ReassemblyInv, UNCHANGED sent, NEW p \in Peers,
         NEW packet \in PacketType, GenuinePacket(p, sent[p], packet),
         packet.total = 1, Deliver(p, [i \in {0} |-> packet.body])
  PROVE  DeliveredInv'
<1> DEFINE chunks == [i \in {0} |-> packet.body]
<1>1. {0} = 0..(1 - 1)
  OBVIOUS
<1>2. packet.index = 0 /\ packet.body \in Bodies
  BY DEF GenuinePacket, PacketType
<1>3. chunks \in [0..(1 - 1) -> Bodies]
  BY <1>1, <1>2
<1>4. chunks \in Chunks
  BY <1>3 DEF Chunks
<1>5. GenuineMessage(p, sent[p], chunks)
  <2>1. /\ packet.id \in 1..MaxMessageId /\ 1 \in 1..MaxFragments
        /\ StandsAt(p, sent[p], packet.body, packet.id, 1, 0)
    BY <1>2 DEF GenuinePacket
  <2>2. DOMAIN chunks = 0..(1 - 1) /\ chunks[0] = packet.body
    BY <1>1
  <2> HIDE DEF chunks
  <2>3. \A i \in 0..(1 - 1) : StandsAt(p, sent[p], chunks[i], packet.id, 1, i)
    BY <2>1, <2>2
  <2> QED
    BY <2>1, <2>2, <2>3 DEF GenuineMessage
<1> QED
  BY <1>4, <1>5, DeliverInv

\* What Without leaves, place by place.
LEMMA WithoutIndex ==
  ASSUME NEW S, NEW s \in Seq(S), NEW i \in DOMAIN s
  PROVE  /\ Without(s, i) \in Seq(S)
         /\ Len(Without(s, i)) = Len(s) - 1
         /\ \A j \in 1..(Len(s) - 1) :
              Without(s, i)[j] = IF j < i THEN s[j] ELSE s[j + 1]
<1> DEFINE a == SubSeq(s, 1, i - 1)
           b == SubSeq(s, i + 1, Len(s))
<1>1. /\ a \in Seq(S) /\ Len(a) = i - 1
      /\ \A j \in 1..(i - 1) : a[j] = s[j]
  OBVIOUS
<1>2. /\ b \in Seq(S) /\ Len(b) = Len(s) - i
      /\ \A j \in 1..(Len(s) - i) : b[j] = s[i + j]
  OBVIOUS
<1>3. Without(s, i) = a \o b
  BY DEF Without
<1> HIDE DEF a, b
<1>4. /\ a \o b \in Seq(S)
      /\ Len(a \o b) = Len(s) - 1
      /\ \A j \in 1..(Len(s) - 1) :
           (a \o b)[j] = IF j < i THEN a[j] ELSE b[j - (i - 1)]
  BY <1>1, <1>2
<1>5. ASSUME NEW j \in 1..(Len(s) - 1)
      PROVE  (a \o b)[j] = IF j < i THEN s[j] ELSE s[j + 1]
  <2>1. CASE j < i
    BY <1>1, <1>4, <2>1
  <2>2. CASE ~(j < i)
    <3>1. j - (i - 1) \in 1..(Len(s) - i) /\ i + (j - (i - 1)) = j + 1
      BY <2>2
    <3> QED
      BY <1>2, <1>4, <2>2, <3>1
  <2> QED
    BY <2>1, <2>2
<1> QED
  BY <1>3, <1>4, <1>5

\* Taking one packet out leaves only packets that were there.
LEMMA WithoutKeeps ==
  ASSUME NEW S, NEW s \in Seq(S), NEW i \in DOMAIN s
  PROVE  /\ Without(s, i) \in Seq(S)
         /\ \A j \in DOMAIN Without(s, i) :
              \E l \in DOMAIN s : Without(s, i)[j] = s[l]
<1>1. /\ Without(s, i) \in Seq(S) /\ Len(Without(s, i)) = Len(s) - 1
      /\ \A j \in 1..(Len(s) - 1) :
           Without(s, i)[j] = IF j < i THEN s[j] ELSE s[j + 1]
  BY WithoutIndex
<1>2. \A j \in 1..(Len(s) - 1) : j \in DOMAIN s /\ j + 1 \in DOMAIN s
  OBVIOUS
<1>3. DOMAIN Without(s, i) = 1..(Len(s) - 1)
  BY <1>1
<1> QED
  BY <1>1, <1>2, <1>3

LEMMA ForeignIsPacket == ForeignPacket \in PacketType
BY DEF ForeignPacket, PacketType, Bodies

LEMMA ReceiveInv ==
  ASSUME ReassemblyInv, NEW p \in Peers, Receive(p)
  PROVE  ReassemblyInv'
<1>1. PICK i \in DOMAIN network[p] :
        /\ Accept(p, network[p][i])
        /\ network' = [network EXCEPT ![p] = Without(@, i)]
        /\ UNCHANGED <<nextMessageId, sent, faults>>
  BY DEF Receive, Deliverable
<1> DEFINE packet == network[p][i]
<1>2. packet \in PacketType /\ network[p] \in Seq(PacketType)
  BY DEF ReassemblyInv, NetworkInv
<1>3. packet = ForeignPacket \/ GenuinePacket(p, sent[p], packet)
  BY DEF ReassemblyInv, NetworkInv
<1>4. SendersInv'
  BY <1>1 DEF ReassemblyInv, SendersInv
<1>5. NetworkInv'
  <2>1. network' \in [Peers -> Seq(PacketType)]
    BY <1>1, <1>2, WithoutKeeps DEF ReassemblyInv, NetworkInv
  <2>2. ASSUME NEW q \in Peers, NEW j \in DOMAIN network'[q]
        PROVE  \E l \in DOMAIN network[q] : network'[q][j] = network[q][l]
    <3>1. CASE q = p
      <4>1. network'[p] = Without(network[p], i)
        BY <1>1 DEF ReassemblyInv, NetworkInv
      <4> QED
        BY <1>2, <3>1, <4>1, WithoutKeeps
    <3>2. CASE q # p
      BY <1>1, <3>2 DEF ReassemblyInv, NetworkInv
    <3> QED
      BY <3>1, <3>2
  <2>3. \A q \in Peers : \A j \in DOMAIN network'[q] :
          \/ network'[q][j] = ForeignPacket
          \/ GenuinePacket(q, sent[q], network'[q][j])
    BY <2>2 DEF ReassemblyInv, NetworkInv
  <2> QED
    BY <1>1, <2>1, <2>3 DEF NetworkInv
<1> HIDE DEF packet
<1>6. ReceiverInv'
  <2>1. CASE UNCHANGED receiverVars
    BY <1>1, <2>1
       DEF ReassemblyInv, ReceiverInv, PendingInv, DeliveredInv, receiverVars
  <2>2. CASE /\ IsFragment(packet) /\ packet.total = 1
             /\ Deliver(p, [j \in {0} |-> packet.body])
             /\ UNCHANGED <<pending, bytes>>
    <3>1. GenuinePacket(p, sent[p], packet)
      BY <1>3, <2>2 DEF ForeignPacket
    <3>2. DeliveredInv'
      BY <1>1, <1>2, <2>2, <3>1, SingleInv
    <3> QED
      BY <1>1, <2>2, <3>2 DEF ReassemblyInv, ReceiverInv, PendingInv
  <2>3. CASE IsFragment(packet) /\ packet.total > 1 /\ Store(p, packet)
    <3>1. GenuinePacket(p, sent[p], packet)
      BY <1>3, <2>3 DEF ForeignPacket
    <3> QED
      BY <1>1, <1>2, <2>3, <3>1, StoreInv
  <2> QED
    BY <1>1, <2>1, <2>2, <2>3 DEF Accept, packet
<1> QED
  BY <1>4, <1>5, <1>6 DEF ReassemblyInv, ReceiverInv

\* A step after which every packet under way was already under way, or is
\* foreign, and which leaves the senders' messages and the receiver alone.
LEMMA NetworkStepInv ==
  ASSUME ReassemblyInv, UNCHANGED <<sent, receiverVars>>,
         nextMessageId' \in [Peers -> 1..MaxMessageId],
         network' \in [Peers -> Seq(PacketType)],
         \A p \in Peers : \A i \in DOMAIN network'[p] :
           \/ network'[p][i] = ForeignPacket
           \/ \E j \in DOMAIN network[p] : network'[p][i] = network[p][j]
  PROVE  ReassemblyInv'
<1>1. SendersInv'
  BY DEF ReassemblyInv, SendersInv
<1>2. NetworkInv'
  BY DEF ReassemblyInv, NetworkInv
<1>3. PendingInv' /\ DeliveredInv'
  BY DEF ReassemblyInv, PendingInv, DeliveredInv, receiverVars
<1> QED
  BY <1>1, <1>2, <1>3 DEF ReassemblyInv

LEMMA FaultInv ==
  ASSUME ReassemblyInv, NEW p \in Peers,
         DuplicatePacket(p) \/ SendForeign(p) \/ SenderRestart(p)
  PROVE  ReassemblyInv'
<1>1. /\ network \in [Peers -> Seq(PacketType)]
      /\ nextMessageId \in [Peers -> 1..MaxMessageId]
  BY DEF ReassemblyInv, NetworkInv, SendersInv
<1>2. CASE DuplicatePacket(p)
  <2>1. PICK i \in DOMAIN network[p] :
          network' = [network EXCEPT ![p] = Append(@, network[p][i])]
    BY <1>2 DEF DuplicatePacket
  <2>2. network' \in [Peers -> Seq(PacketType)]
    BY <1>1, <2>1
  <2>3. \A q \in Peers : \A m \in DOMAIN network'[q] :
          \E j \in DOMAIN network[q] : network'[q][m] = network[q][j]
    BY <1>1, <2>1
  <2> QED
    BY <1>1, <1>2, <2>2, <2>3, NetworkStepInv DEF DuplicatePacket
<1>3. CASE SendForeign(p)
  <2>1. network' = [network EXCEPT ![p] = Append(@, ForeignPacket)]
    BY <1>3 DEF SendForeign
  <2>2. network' \in [Peers -> Seq(PacketType)]
    BY <1>1, <2>1, ForeignIsPacket
  <2>3. \A q \in Peers : \A m \in DOMAIN network'[q] :
          \/ network'[q][m] = ForeignPacket
          \/ \E j \in DOMAIN network[q] : network'[q][m] = network[q][j]
    BY <1>1, <2>1
  <2> QED
    BY <1>1, <1>3, <2>2, <2>3, NetworkStepInv DEF SendForeign
<1>4. CASE SenderRestart(p)
  <2>1. PICK n \in 0..Len(network[p]) :
          network' = [network EXCEPT ![p] = SubSeq(@, 1, n)]
    BY <1>4 DEF SenderRestart
  <2>2. network' \in [Peers -> Seq(PacketType)]
    BY <1>1, <2>1
  <2>3. \A q \in Peers : \A m \in DOMAIN network'[q] :
          \E j \in DOMAIN network[q] : network'[q][m] = network[q][j]
    BY <1>1, <2>1
  <2>4. nextMessageId' \in [Peers -> 1..MaxMessageId]
    BY <1>1, <1>4, ReassemblyAssumption DEF SenderRestart
  <2> QED
    BY <1>4, <2>2, <2>3, <2>4, NetworkStepInv DEF SenderRestart
<1> QED
  BY <1>2, <1>3, <1>4

LEMMA ReceiverRestartInv ==
  ASSUME ReassemblyInv, ReceiverRestart PROVE ReassemblyInv'
<1>1. SendersInv'
  BY DEF ReceiverRestart, ReassemblyInv, SendersInv
<1>2. NetworkInv'
  <2>1. CASE network' = network
    BY <2>1 DEF ReceiverRestart, ReassemblyInv, NetworkInv
  <2>2. CASE network' = [p \in Peers |-> << >>]
    BY <2>2 DEF NetworkInv
  <2> QED
    BY <2>1, <2>2 DEF ReceiverRestart
<1>3. PendingInv' /\ DeliveredInv'
  BY DEF ReceiverRestart, ReassemblyInv, PendingInv, DeliveredInv
<1> QED
  BY <1>1, <1>2, <1>3 DEF ReassemblyInv

LEMMA TimePassesInv ==
  ASSUME ReassemblyInv, TimePasses PROVE ReassemblyInv'
<1>1. SendersInv' /\ NetworkInv' /\ DeliveredInv'
  BY DEF TimePasses, ReassemblyInv, SendersInv, NetworkInv, DeliveredInv
<1>2. ASSUME NEW f \in pending'
      PROVE  f.peer \in Peers /\ GenuineEntry(f.peer, sent[f.peer], f)
  <2>1. PICK e \in pending :
          f = [e EXCEPT !.age = IF @ > TtlMs THEN @ ELSE @ + 1]
    BY <1>2 DEF TimePasses
  <2>2. e.peer \in Peers /\ GenuineEntry(e.peer, sent[e.peer], e)
    BY DEF ReassemblyInv, PendingInv
  <2>3. /\ f = [peer |-> f.peer, id |-> f.id, total |-> f.total,
                chunks |-> f.chunks, received |-> f.received,
                bytes |-> f.bytes, age |-> f.age, born |-> f.born]
        /\ f.peer = e.peer /\ f.id = e.id /\ f.total = e.total
        /\ f.chunks = e.chunks /\ f.received = e.received
    BY <2>1, <2>2 DEF GenuineEntry
  <2> QED
    BY <2>2, <2>3 DEF GenuineEntry
<1>3. PendingInv'
  BY <1>2 DEF TimePasses, PendingInv
<1> QED
  BY <1>1, <1>3 DEF ReassemblyInv

LEMMA NextInv == ASSUME ReassemblyInv, [Next]_vars PROVE ReassemblyInv'
<1>1. ASSUME NEW p \in Peers, Send(p) PROVE ReassemblyInv'
  BY <1>1, SendLargeInv DEF Send
<1>2. ASSUME NEW p \in Peers, Receive(p) PROVE ReassemblyInv'
  BY <1>2, ReceiveInv
<1>3. ASSUME NEW p \in Peers,
             DuplicatePacket(p) \/ SendForeign(p) \/ SenderRestart(p)
      PROVE  ReassemblyInv'
  BY <1>3, FaultInv
<1>4. ASSUME ReceiverRestart PROVE ReassemblyInv'
  BY <1>4, ReceiverRestartInv
<1>5. ASSUME TimePasses PROVE ReassemblyInv'
  BY <1>5, TimePassesInv
<1>6. ASSUME UNCHANGED vars PROVE ReassemblyInv'
  BY <1>6
     DEF vars, ReassemblyInv, SendersInv, NetworkInv, PendingInv, DeliveredInv
<1> QED
  BY <1>1, <1>2, <1>3, <1>4, <1>5, <1>6 DEF Next

\* What a slice says of itself remains true on its way, and an entry counts
\* its filled places.
THEOREM SlicesStayGenuine == Spec => []ReassemblyInv
BY InitInv, NextInv, PTL DEF Spec

\* However packets are lost, repeated and reordered, whoever restarts and
\* however often an id comes back: a message that Reassembler.accept returns is
\* complete, in order, and made of slices its own peer cut from messages with
\* one id and one number of fragments.
THEOREM WrongOnlyIfIdReusedHolds == Spec => []WrongOnlyIfIdReused
<1>1. ReassemblyInv => WrongOnlyIfIdReused
  BY DEF ReassemblyInv, DeliveredInv, GenuineMessage, WrongOnlyIfIdReused
<1> QED
  BY <1>1, SlicesStayGenuine, PTL

-----------------------------------------------------------------------------
(* What is missing for "every message that arrives is one that was sent".  *)

\* The only thing that can break the promise of index.js:206-207 not to mix two
\* messages is an id used twice, which takes a restart or a wrap-around: while
\* there is none, every 'p2p:message' is a message that was sent, whole.
THEOREM IntactWhileIdsUniqueHolds == Spec => []IntactWhileIdsUnique
<1>1. ASSUME ReassemblyInv, IdsUnique,
             NEW p \in Peers, NEW n \in DOMAIN delivered[p]
      PROVE  MessageOf(p, delivered[p][n]) # 0
  <2> DEFINE chunks == delivered[p][n]
  <2>1. chunks \in Chunks /\ GenuineMessage(p, sent[p], chunks)
    BY <1>1 DEF ReassemblyInv, DeliveredInv
  <2>2. DOMAIN sent[p] \subseteq Nat \ {0}
    BY <1>1 DEF ReassemblyInv, SendersInv
  <2> HIDE DEF chunks
  <2>3. PICK id \in 1..MaxMessageId, total \in 1..MaxFragments :
          /\ DOMAIN chunks = 0..(total - 1)
          /\ \A i \in 0..(total - 1) :
               StandsAt(p, sent[p], chunks[i], id, total, i)
    BY <2>1 DEF GenuineMessage
  <2> DEFINE k == chunks[0].of
  <2>4. 0 \in 0..(total - 1)
    BY ReassemblyAssumption
  <2>5. /\ k \in DOMAIN sent[p] /\ sent[p][k].id = id
        /\ Total(sent[p][k].size) = total
    BY <2>3, <2>4 DEF StandsAt
  <2>6. \A i \in 0..(total - 1) : chunks[i] = Slice(p, k, sent[p][k].size, i)
    BY <1>1, <2>3, <2>5 DEF StandsAt, IdsUnique
  <2>7. chunks = [i \in 0..(Total(sent[p][k].size) - 1) |->
                    Slice(p, k, sent[p][k].size, i)]
    BY <2>1, <2>3, <2>5, <2>6 DEF Chunks
  <2> QED
    BY <2>2, <2>5, <2>7 DEF MessageOf, chunks
<1>2. ReassemblyInv => IntactWhileIdsUnique
  BY <1>1 DEF NoMixing, IntactWhileIdsUnique
<1> QED
  BY <1>2, SlicesStayGenuine, PTL

-----------------------------------------------------------------------------
(* The channel.  Over a reliable transport, ordered or not, and as long as *)
(* no peer uses an id twice, sendLarge and 'p2p:message' implement the     *)
(* channel of module MessageChannel, whoever restarts, fails in the middle *)
(* of a message, or loses one to the budget or the clock.  The argument: a *)
(* slice is in one place, on the wire or in the table, and in none of them *)
(* once its message was delivered.                                         *)

\* A delivered message of one number only.
IsMessage(p, messages, chunks) ==
  LET k == chunks[0].of
  IN  /\ k \in DOMAIN messages
      /\ 0 \in DOMAIN chunks
      /\ DOMAIN chunks = 0..(Total(messages[k].size) - 1)
      /\ \A i \in DOMAIN chunks : chunks[i] = Slice(p, k, messages[k].size, i)

\* Every 'p2p:message' is a message of its peer, and MessageOf is its number.
Numbered ==
  \A p \in Peers : \A n \in DOMAIN delivered[p] :
    /\ IsMessage(p, sent[p], delivered[p][n])
    /\ MessageOf(p, delivered[p][n]) = delivered[p][n][0].of

\* No slice is twice on the wire.
Single(s) ==
  \A i, j \in DOMAIN s : s[i].body # Hole /\ s[i].body = s[j].body => i = j

\* The fragments of a message come before those of the next.
Ordered(s) ==
  \A i, j \in DOMAIN s :
    i < j /\ s[i].body # Hole /\ s[j].body # Hole => s[i].body.of <= s[j].body.of

InTable(p, slice) ==
  \E e \in pending : e.peer = p /\ \E i \in DOMAIN e.chunks : e.chunks[i] = slice

Arrived(p, k) == \E n \in DOMAIN delivered[p] : delivered[p][n][0].of = k

\* What is on the wire is neither in the table nor in a delivered message.
WireInv(p) ==
  /\ Single(network[p])
  /\ Reliability = "reliableOrdered" => Ordered(network[p])
  /\ \A i \in DOMAIN network[p] :
       network[p][i].body # Hole
         => /\ ~InTable(p, network[p][i].body)
            /\ ~Arrived(p, network[p][i].body.of)
            /\ Reliability = "reliableOrdered"
                 => \A n \in DOMAIN delivered[p] :
                      delivered[p][n][0].of < network[p][i].body.of

\* What is in the table is in no delivered message.
TableInv(p) ==
  \A e \in pending : \A i \in DOMAIN e.chunks :
    e.peer = p /\ e.chunks[i] # Hole => ~Arrived(p, e.chunks[i].of)

OnePlaceInv == \A p \in Peers : WireInv(p) /\ TableInv(p)

-----------------------------------------------------------------------------
(* The numbers of the messages.                                            *)

LEMMA UniqueIsMessage ==
  ASSUME NEW p \in Peers, NEW messages \in Seq(SentType), NEW chunks \in Chunks,
         GenuineMessage(p, messages, chunks),
         \A j, k \in DOMAIN messages :
           /\ messages[j].id = messages[k].id
           /\ Total(messages[j].size) = Total(messages[k].size)
           => j = k
  PROVE  IsMessage(p, messages, chunks)
<1>1. PICK id \in 1..MaxMessageId, total \in 1..MaxFragments :
        /\ DOMAIN chunks = 0..(total - 1)
        /\ \A i \in 0..(total - 1) : StandsAt(p, messages, chunks[i], id, total, i)
  BY DEF GenuineMessage
<1> DEFINE k == chunks[0].of
<1>2. 0 \in 0..(total - 1)
  BY ReassemblyAssumption
<1>3. /\ k \in DOMAIN messages /\ messages[k].id = id
      /\ Total(messages[k].size) = total
  BY <1>1, <1>2 DEF StandsAt
<1>4. \A i \in 0..(total - 1) : chunks[i] = Slice(p, k, messages[k].size, i)
  BY <1>1, <1>3 DEF StandsAt
<1> QED
  BY <1>1, <1>2, <1>3, <1>4 DEF IsMessage

LEMMA MessagesNumbered == ReassemblyInv /\ IdsUnique => Numbered
<1> SUFFICES ASSUME ReassemblyInv, IdsUnique,
                    NEW p \in Peers, NEW n \in DOMAIN delivered[p]
             PROVE  /\ IsMessage(p, sent[p], delivered[p][n])
                    /\ MessageOf(p, delivered[p][n]) = delivered[p][n][0].of
  BY DEF Numbered
<1> DEFINE chunks == delivered[p][n]
           k == chunks[0].of
           Whole(j) == chunks = [i \in 0..(Total(sent[p][j].size) - 1) |->
                                   Slice(p, j, sent[p][j].size, i)]
<1>1. /\ chunks \in Chunks /\ GenuineMessage(p, sent[p], chunks)
      /\ sent[p] \in Seq(SentType)
  BY DEF ReassemblyInv, DeliveredInv, SendersInv
<1> HIDE DEF chunks
<1>2. IsMessage(p, sent[p], chunks)
  BY <1>1, UniqueIsMessage DEF IdsUnique
<1>3. k \in DOMAIN sent[p] /\ Whole(k)
  BY <1>1, <1>2 DEF IsMessage, Chunks
<1>4. ASSUME NEW j \in DOMAIN sent[p], Whole(j) PROVE j = k
  <2>1. 0 \in 0..(Total(sent[p][j].size) - 1)
    BY <1>2, <1>4 DEF IsMessage
  <2>2. chunks[0] = Slice(p, j, sent[p][j].size, 0)
    BY <1>4, <2>1
  <2> QED
    BY <2>2 DEF Slice
<1>5. MessageOf(p, chunks) = CHOOSE j \in DOMAIN sent[p] : Whole(j)
  BY <1>3 DEF MessageOf
<1> HIDE DEF Whole
<1> QED
  BY <1>2, <1>3, <1>4, <1>5 DEF chunks

-----------------------------------------------------------------------------
(* Less on the wire.                                                       *)

\* What is in t was in s, in the same order, or is foreign.
PartOf(t, s) ==
  /\ \A i \in DOMAIN t :
       t[i].body = Hole \/ \E k \in DOMAIN s : t[i] = s[k]
  /\ \A i, j \in DOMAIN t :
       i < j /\ t[i].body # Hole /\ t[j].body # Hole
         => \E k, l \in DOMAIN s : k < l /\ t[i] = s[k] /\ t[j] = s[l]

LEMMA PartKeeps ==
  ASSUME NEW t \in Seq(PacketType), NEW s \in Seq(PacketType), PartOf(t, s)
  PROVE  (Single(s) => Single(t)) /\ (Ordered(s) => Ordered(t))
<1>1. Single(s) => Single(t)
  <2> SUFFICES ASSUME Single(s), NEW i \in DOMAIN t, NEW j \in DOMAIN t,
                      t[i].body # Hole, t[i].body = t[j].body, i < j
               PROVE  FALSE
    BY DEF Single
  <2>1. PICK k \in DOMAIN s, l \in DOMAIN s : k < l /\ t[i] = s[k] /\ t[j] = s[l]
    BY DEF PartOf
  <2> QED
    BY <2>1 DEF Single
<1>2. Ordered(s) => Ordered(t)
  BY DEF PartOf, Ordered
<1> QED
  BY <1>1, <1>2

\* A step after which nothing is on the wire or in the table that was not, and
\* that delivers nothing.
LEMMA LessInv ==
  ASSUME ReassemblyInv, OnePlaceInv, UNCHANGED delivered,
         network' \in [Peers -> Seq(PacketType)],
         \A p \in Peers : PartOf(network'[p], network[p]),
         \A f \in pending' : \E e \in pending :
           f.peer = e.peer /\ f.chunks = e.chunks
  PROVE  OnePlaceInv'
<1> SUFFICES ASSUME NEW p \in Peers PROVE WireInv(p)' /\ TableInv(p)'
  BY DEF OnePlaceInv
<1>1. /\ network[p] \in Seq(PacketType) /\ network'[p] \in Seq(PacketType)
      /\ PartOf(network'[p], network[p]) /\ WireInv(p) /\ TableInv(p)
  BY DEF ReassemblyInv, NetworkInv, OnePlaceInv
<1>2. /\ Single(network'[p])
      /\ Reliability = "reliableOrdered" => Ordered(network'[p])
  BY <1>1, PartKeeps DEF WireInv
<1>3. ASSUME NEW slice, InTable(p, slice)' PROVE InTable(p, slice)
  BY <1>3 DEF InTable
<1>4. ASSUME NEW k, Arrived(p, k)' PROVE Arrived(p, k)
  BY <1>4 DEF Arrived
<1>5. ASSUME NEW i \in DOMAIN network'[p], network'[p][i].body # Hole
      PROVE  /\ ~InTable(p, network[p][i].body)'
             /\ ~Arrived(p, network[p][i].body.of)'
             /\ Reliability = "reliableOrdered"
                  => \A n \in DOMAIN delivered'[p] :
                       delivered'[p][n][0].of < network'[p][i].body.of
  <2>1. PICK j \in DOMAIN network[p] : network'[p][i] = network[p][j]
    BY <1>1, <1>5 DEF PartOf
  <2>2. /\ ~InTable(p, network[p][j].body)
        /\ ~Arrived(p, network[p][j].body.of)
        /\ Reliability = "reliableOrdered"
             => \A n \in DOMAIN delivered[p] :
                  delivered[p][n][0].of < network[p][j].body.of
    BY <1>1, <1>5, <2>1 DEF WireInv
  <2>3. ~InTable(p, network[p][i].body)'
    BY <2>1, <2>2 DEF InTable
  <2>4. ~Arrived(p, network[p][i].body.of)'
    BY <2>1, <2>2 DEF Arrived
  <2> QED
    BY <2>1, <2>2, <2>3, <2>4
<1>6. TableInv(p)'
  BY <1>1 DEF TableInv, Arrived
<1>7. WireInv(p)'
  BY <1>2, <1>5 DEF WireInv
<1> QED
  BY <1>6, <1>7

LEMMA OnePlaceInit == Init => OnePlaceInv
BY DEF Init, OnePlaceInv, WireInv, TableInv, Single, Ordered

LEMMA PartOfItself == ASSUME NEW s \in Seq(PacketType) PROVE PartOf(s, s)
BY DEF PartOf

\* Restarts, foreign packets and the clock only take away.
LEMMA FaultLessInv ==
  ASSUME ReassemblyInv, OnePlaceInv, Reliability # "unreliableUnordered",
         \/ ReceiverRestart \/ TimePasses
         \/ \E p \in Peers : DuplicatePacket(p) \/ SendForeign(p) \/ SenderRestart(p)
  PROVE  OnePlaceInv'
<1>1. network \in [Peers -> Seq(PacketType)]
  BY DEF ReassemblyInv, NetworkInv
<1>2. \A q \in Peers : PartOf(network[q], network[q])
  BY <1>1, PartOfItself
<1>3. CASE ReceiverRestart
  <2>1. pending' = {} /\ UNCHANGED delivered
    BY <1>3 DEF ReceiverRestart
  <2>2. network' \in [Peers -> Seq(PacketType)]
    <3>1. [q \in Peers |-> << >>] \in [Peers -> Seq(PacketType)]
      OBVIOUS
    <3> QED
      BY <1>1, <1>3, <3>1 DEF ReceiverRestart
  <2>3. \A q \in Peers : PartOf(network'[q], network[q])
    <3>1. CASE network' = network
      BY <1>2, <3>1
    <3>2. CASE network' = [q \in Peers |-> << >>]
      <4>1. \A q \in Peers : network'[q] = << >>
        BY <3>2
      <4> QED
        BY <4>1 DEF PartOf
    <3> QED
      BY <1>3, <3>1, <3>2 DEF ReceiverRestart
  <2> QED
    BY <2>1, <2>2, <2>3, LessInv
<1>4. CASE TimePasses
  <2>1. UNCHANGED <<network, delivered>>
    BY <1>4 DEF TimePasses
  <2>2. ASSUME NEW f \in pending'
        PROVE  \E e \in pending : f.peer = e.peer /\ f.chunks = e.chunks
    <3>1. PICK e \in pending :
            f = [e EXCEPT !.age = IF @ > TtlMs THEN @ ELSE @ + 1]
      BY <1>4 DEF TimePasses
    <3>2. e = [peer |-> e.peer, id |-> e.id, total |-> e.total,
               chunks |-> e.chunks, received |-> e.received, bytes |-> e.bytes,
               age |-> e.age, born |-> e.born]
      BY DEF ReassemblyInv, PendingInv, GenuineEntry
    <3> QED
      BY <3>1, <3>2
  <2> QED
    BY <1>1, <1>2, <2>1, <2>2, LessInv
<1>5. ASSUME NEW p \in Peers, SendForeign(p) PROVE OnePlaceInv'
  <2>1. /\ network' = [network EXCEPT ![p] = Append(@, ForeignPacket)]
        /\ UNCHANGED <<pending, delivered>>
    BY <1>5 DEF SendForeign, receiverVars
  <2>2. network' \in [Peers -> Seq(PacketType)]
    BY <1>1, <2>1, ForeignIsPacket
  <2>3. PartOf(Append(network[p], ForeignPacket), network[p])
    <3>1. ForeignPacket.body = Hole
      BY DEF ForeignPacket
    <3> QED
      BY <1>1, <3>1, ForeignIsPacket DEF PartOf
  <2>4. \A q \in Peers : PartOf(network'[q], network[q])
    BY <1>1, <1>2, <2>1, <2>3
  <2> QED
    BY <2>1, <2>2, <2>4, LessInv
<1>6. ASSUME NEW p \in Peers, SenderRestart(p) PROVE OnePlaceInv'
  <2>1. PICK n \in 0..Len(network[p]) :
          network' = [network EXCEPT ![p] = SubSeq(@, 1, n)]
    BY <1>6 DEF SenderRestart
  <2>2. UNCHANGED <<pending, delivered>>
    BY <1>6 DEF SenderRestart, receiverVars
  <2>3. network' \in [Peers -> Seq(PacketType)]
    BY <1>1, <2>1
  <2>4. PartOf(SubSeq(network[p], 1, n), network[p])
    BY <1>1 DEF PartOf
  <2>5. \A q \in Peers : PartOf(network'[q], network[q])
    BY <1>1, <1>2, <2>1, <2>4
  <2> QED
    BY <2>2, <2>3, <2>5, LessInv
<1> QED
  BY <1>3, <1>4, <1>5, <1>6 DEF DuplicatePacket

-----------------------------------------------------------------------------
(* A new message.                                                          *)

\* Only messages that were sent are anywhere.
LEMMA OnlySent ==
  ASSUME ReassemblyInv, NEW p \in Peers
  PROVE  /\ \A i \in DOMAIN network[p] :
              network[p][i].body # Hole
                => network[p][i].body.of \in DOMAIN sent[p]
         /\ \A slice : slice # Hole /\ InTable(p, slice)
                         => slice.of \in DOMAIN sent[p]
         /\ \A k : Arrived(p, k) => k \in DOMAIN sent[p]
<1>1. \A i \in DOMAIN network[p] :
        network[p][i].body # Hole => network[p][i].body.of \in DOMAIN sent[p]
  BY DEF ReassemblyInv, NetworkInv, GenuinePacket, StandsAt, ForeignPacket
<1>2. ASSUME NEW slice, slice # Hole, InTable(p, slice)
      PROVE  slice.of \in DOMAIN sent[p]
  <2>1. PICK e \in pending : /\ e.peer = p
                             /\ \E i \in DOMAIN e.chunks : e.chunks[i] = slice
    BY <1>2 DEF InTable
  <2>2. PICK i \in DOMAIN e.chunks : e.chunks[i] = slice
    BY <2>1
  <2>3. GenuineEntry(p, sent[p], e)
    BY <2>1 DEF ReassemblyInv, PendingInv
  <2>4. DOMAIN e.chunks = 0..(e.total - 1)
    BY <2>3 DEF GenuineEntry
  <2>5. StandsAt(p, sent[p], slice, e.id, e.total, i)
    BY <1>2, <2>2, <2>3, <2>4 DEF GenuineEntry
  <2> QED
    BY <2>5 DEF StandsAt
<1>3. ASSUME NEW k, Arrived(p, k) PROVE k \in DOMAIN sent[p]
  <2>1. PICK n \in DOMAIN delivered[p] : delivered[p][n][0].of = k
    BY <1>3 DEF Arrived
  <2>2. GenuineMessage(p, sent[p], delivered[p][n])
    BY DEF ReassemblyInv, DeliveredInv
  <2>3. PICK id \in 1..MaxMessageId, total \in 1..MaxFragments :
          \A i \in 0..(total - 1) :
            StandsAt(p, sent[p], delivered[p][n][i], id, total, i)
    BY <2>2 DEF GenuineMessage
  <2>4. 0 \in 0..(total - 1)
    BY ReassemblyAssumption
  <2> QED
    BY <2>1, <2>3, <2>4 DEF StandsAt
<1> QED
  BY <1>1, <1>2, <1>3

LEMMA SendPlaceInv ==
  ASSUME ReassemblyInv, OnePlaceInv, NEW p \in Peers, NEW size \in Sizes,
         NEW n \in 0..Total(size), SendLarge(p, size, n)
  PROVE  OnePlaceInv'
<1> DEFINE k == Len(sent[p]) + 1
           pieces == SubSeq(Fragments(p, k, nextMessageId[p], size), 1, n)
<1>1. /\ network \in [Peers -> Seq(PacketType)]
      /\ sent[p] \in Seq(SentType)
      /\ UNCHANGED <<pending, delivered>>
  BY DEF ReassemblyInv, NetworkInv, SendersInv, SendLarge, receiverVars
<1>2. CASE Total(size) > MaxFragments
  <2>1. UNCHANGED network
    BY <1>2 DEF SendLarge
  <2>2. \A q \in Peers : PartOf(network'[q], network[q])
    BY <1>1, <2>1, PartOfItself
  <2> QED
    BY <1>1, <2>1, <2>2, LessInv
<1>3. CASE ~(Total(size) > MaxFragments)
  <2>1. network' = [network EXCEPT ![p] = @ \o pieces]
    BY <1>3 DEF SendLarge
  <2>2. /\ size \in Nat /\ Total(size) \in Nat /\ k \in Nat
        /\ nextMessageId[p] \in 1..MaxMessageId
    BY <1>1, ReassemblyAssumption, TotalIsNat DEF ReassemblyInv, SendersInv
  <2>3. pieces \in Seq(PacketType) /\ Len(pieces) = n
    BY <2>2, FragmentsAreSequence
  <2>4. ASSUME NEW j \in 1..n
        PROVE  /\ pieces[j].body # Hole
               /\ pieces[j].body.of = k
               /\ pieces[j].body.index = j - 1
    <3>1. j \in 1..Total(size)
      BY <2>2
    <3>2. pieces[j] = Fragments(p, k, nextMessageId[p], size)[j]
      BY <2>2, FragmentsAreSequence
    <3> HIDE DEF k, pieces
    <3>3. /\ Fragments(p, k, nextMessageId[p], size)[j] =
               [id |-> nextMessageId[p], index |-> j - 1,
                total |-> Total(size), body |-> Slice(p, k, size, j - 1)]
          /\ Slice(p, k, size, j - 1) # Hole
      BY <2>2, <3>1, FragmentIsPacket
    <3>4. pieces[j].body = Slice(p, k, size, j - 1)
      BY <3>2, <3>3
    <3> QED
      BY <3>3, <3>4 DEF Slice
  <2> HIDE DEF pieces
  <2>5. network'[p] = network[p] \o pieces
    BY <1>1, <2>1
  <2>6. ASSUME NEW i \in DOMAIN network'[p]
        PROVE  \/ i \in DOMAIN network[p] /\ network'[p][i] = network[p][i]
               \/ /\ i \notin DOMAIN network[p] /\ i > Len(network[p])
                  /\ i - Len(network[p]) \in 1..n
                  /\ network'[p][i] = pieces[i - Len(network[p])]
    BY <1>1, <2>3, <2>5
  <2>7. ASSUME NEW i \in DOMAIN network[p], network[p][i].body # Hole
        PROVE  network[p][i].body.of < k
    BY <1>1, <2>7, OnlySent
  <2>8. Single(network'[p])
    <3> SUFFICES ASSUME NEW i \in DOMAIN network'[p], NEW j \in DOMAIN network'[p],
                        network'[p][i].body # Hole,
                        network'[p][i].body = network'[p][j].body
                 PROVE  i = j
      BY DEF Single
    <3>1. i \in Nat /\ j \in Nat /\ Len(network[p]) \in Nat
      BY <1>1, <2>3, <2>5
    <3>2. CASE i \in DOMAIN network[p] /\ j \in DOMAIN network[p]
      BY <2>6, <3>2 DEF OnePlaceInv, WireInv, Single
    <3>3. CASE i \in DOMAIN network[p] /\ j \notin DOMAIN network[p]
      <4>1. network'[p][j].body.of = k
        BY <2>4, <2>6, <3>3
      <4>2. network'[p][i].body.of < k
        BY <2>6, <2>7, <3>3
      <4> QED
        BY <2>2, <4>1, <4>2
    <3>4. CASE i \notin DOMAIN network[p] /\ j \in DOMAIN network[p]
      <4>1. network'[p][i].body.of = k
        BY <2>4, <2>6, <3>4
      <4>2. network'[p][j].body.of < k
        BY <2>6, <2>7, <3>4
      <4> QED
        BY <2>2, <4>1, <4>2
    <3>5. CASE i \notin DOMAIN network[p] /\ j \notin DOMAIN network[p]
      <4>1. (i - Len(network[p])) - 1 = (j - Len(network[p])) - 1
        BY <2>4, <2>6, <3>5
      <4> QED
        BY <3>1, <4>1
    <3> QED
      BY <3>2, <3>3, <3>4, <3>5
  <2>9. ASSUME Reliability = "reliableOrdered" PROVE Ordered(network'[p])
    <3> SUFFICES ASSUME NEW i \in DOMAIN network'[p], NEW j \in DOMAIN network'[p],
                        i < j, network'[p][i].body # Hole,
                        network'[p][j].body # Hole
                 PROVE  network'[p][i].body.of <= network'[p][j].body.of
      BY DEF Ordered
    <3>1. i \in Nat /\ j \in Nat /\ Len(network[p]) \in Nat
          /\ DOMAIN network[p] = 1..Len(network[p])
      BY <1>1, <2>3, <2>5
    <3>2. CASE j \in DOMAIN network[p]
      <4>1. i \in DOMAIN network[p]
        BY <2>6, <3>1, <3>2
      <4> QED
        BY <2>6, <2>9, <3>2, <4>1 DEF OnePlaceInv, WireInv, Ordered
    <3>3. CASE j \notin DOMAIN network[p]
      <4>1. network'[p][j].body.of = k
        BY <2>4, <2>6, <3>3
      <4>2. CASE i \in DOMAIN network[p]
        <5>1. network'[p][i].body.of < k /\ network'[p][i].body.of \in Nat
          BY <1>1, <2>6, <2>7, <4>2, OnlySent
        <5> QED
          BY <2>2, <4>1, <5>1
      <4>3. CASE i \notin DOMAIN network[p]
        BY <2>2, <2>4, <2>6, <4>1, <4>3
      <4> QED
        BY <4>2, <4>3
    <3> QED
      BY <3>2, <3>3
  <2>10. ASSUME NEW i \in DOMAIN network'[p], network'[p][i].body # Hole
         PROVE  /\ ~InTable(p, network[p][i].body)'
                /\ ~Arrived(p, network[p][i].body.of)'
                /\ Reliability = "reliableOrdered"
                     => \A m \in DOMAIN delivered'[p] :
                          delivered'[p][m][0].of < network'[p][i].body.of
    <3>1. CASE i \in DOMAIN network[p] /\ network'[p][i] = network[p][i]
      BY <1>1, <2>10, <3>1 DEF OnePlaceInv, WireInv, InTable, Arrived
    <3>2. CASE network'[p][i].body.of = k
      <4>1. ~InTable(p, network'[p][i].body)
        BY <1>1, <2>10, <3>2, OnlySent
      <4>2. ~Arrived(p, network'[p][i].body.of)
        BY <1>1, <3>2, OnlySent
      <4>3. \A m \in DOMAIN delivered[p] : delivered[p][m][0].of < k
        <5>1. \A m \in DOMAIN delivered[p] :
                delivered[p][m][0].of \in DOMAIN sent[p]
          BY OnlySent DEF Arrived
        <5> QED
          BY <1>1, <5>1
      <4> QED
        BY <1>1, <3>2, <4>1, <4>2, <4>3 DEF InTable, Arrived
    <3> QED
      BY <2>4, <2>6, <3>1, <3>2
  <2>11. WireInv(p)'
    BY <2>8, <2>9, <2>10 DEF WireInv
  <2>12. \A q \in Peers : WireInv(q)'
    <3> SUFFICES ASSUME NEW q \in Peers, q # p PROVE WireInv(q)'
      BY <2>11
    <3>1. network'[q] = network[q] /\ WireInv(q)
      BY <1>1, <2>1 DEF OnePlaceInv
    <3> QED
      BY <1>1, <3>1 DEF WireInv, InTable, Arrived
  <2>13. \A q \in Peers : TableInv(q)'
    BY <1>1 DEF OnePlaceInv, TableInv, Arrived
  <2> QED
    BY <2>12, <2>13 DEF OnePlaceInv
<1> QED
  BY <1>2, <1>3

-----------------------------------------------------------------------------
(* A packet that is taken off the wire.                                    *)

LEMMA RestIsPart ==
  ASSUME NEW s \in Seq(PacketType), NEW i \in DOMAIN s
  PROVE  /\ Without(s, i) \in Seq(PacketType)
         /\ PartOf(Without(s, i), s)
         /\ \A j \in DOMAIN Without(s, i) :
              \E l \in DOMAIN s \ {i} : Without(s, i)[j] = s[l]
<1> DEFINE rest == Without(s, i)
           at(j) == IF j < i THEN j ELSE j + 1
<1>1. /\ rest \in Seq(PacketType) /\ Len(rest) = Len(s) - 1
      /\ \A j \in 1..(Len(s) - 1) : rest[j] = s[at(j)]
  BY WithoutIndex
<1> HIDE DEF rest
<1>2. DOMAIN rest = 1..(Len(s) - 1)
  BY <1>1
<1>3. \A j \in 1..(Len(s) - 1) : at(j) \in DOMAIN s \ {i}
  OBVIOUS
<1>4. \A j, l \in 1..(Len(s) - 1) : j < l => at(j) < at(l)
  OBVIOUS
<1> HIDE DEF at
<1>5. PartOf(rest, s)
  BY <1>1, <1>2, <1>3, <1>4 DEF PartOf
<1> QED
  BY <1>1, <1>2, <1>3, <1>5 DEF rest

\* The packet at i is taken, its slice may be put into the table, and `came` is
\* the number of its message if that is delivered.
Takes(p, i, came) ==
  /\ network[p][i].body # Hole
  /\ network' = [network EXCEPT ![p] = Without(@, i)]
  /\ came \subseteq {network[p][i].body.of}
  /\ \A f \in pending' : \A x \in DOMAIN f.chunks :
       \/ f.chunks[x] = Hole
       \/ InTable(f.peer, f.chunks[x])
       \/ f.peer = p /\ f.chunks[x] = network[p][i].body
  /\ \A q \in Peers : \A n \in DOMAIN delivered'[q] :
       \/ n \in DOMAIN delivered[q] /\ delivered'[q][n] = delivered[q][n]
       \/ q = p /\ delivered'[q][n][0].of \in came
  /\ \A l \in DOMAIN network[p] \ {i} :
       network[p][l].body # Hole => network[p][l].body.of \notin came
  /\ \A f \in pending' : \A x \in DOMAIN f.chunks :
       f.peer = p /\ f.chunks[x] # Hole => f.chunks[x].of \notin came

LEMMA TakeInv ==
  ASSUME ReassemblyInv, OnePlaceInv, NEW p \in Peers, NEW i \in Deliverable(p),
         NEW came, Takes(p, i, came)
  PROVE  OnePlaceInv'
<1> USE DEF Takes
<1> DEFINE slice == network[p][i].body
<1>1. /\ network \in [Peers -> Seq(PacketType)] /\ network[p] \in Seq(PacketType)
      /\ i \in DOMAIN network[p]
      /\ Reliability = "reliableOrdered" => i = 1
  BY DEF ReassemblyInv, NetworkInv, Deliverable
<1>2. /\ network'[p] = Without(network[p], i)
      /\ \A q \in Peers \ {p} : network'[q] = network[q]
  BY <1>1
<1>3. /\ network'[p] \in Seq(PacketType)
      /\ PartOf(network'[p], network[p])
      /\ \A j \in DOMAIN network'[p] :
           \E l \in DOMAIN network[p] \ {i} : network'[p][j] = network[p][l]
  BY <1>1, <1>2, RestIsPart
<1>4. WireInv(p) /\ ~InTable(p, slice) /\ ~Arrived(p, slice.of)
  BY <1>1 DEF OnePlaceInv, WireInv
<1>5. ASSUME NEW q \in Peers, NEW c, c # Hole, InTable(q, c)'
      PROVE  InTable(q, c) \/ (q = p /\ c = slice)
  <2>1. PICK f \in pending' : f.peer = q /\ \E x \in DOMAIN f.chunks : f.chunks[x] = c
    BY <1>5 DEF InTable
  <2>2. PICK x \in DOMAIN f.chunks : f.chunks[x] = c
    BY <2>1
  <2> QED
    BY <1>5, <2>1, <2>2
<1>6. ASSUME NEW q \in Peers, NEW k, Arrived(q, k)'
      PROVE  Arrived(q, k) \/ (q = p /\ k \in came)
  BY <1>6 DEF Arrived
<1>7. ASSUME NEW j \in DOMAIN network'[p], network'[p][j].body # Hole
      PROVE  /\ ~InTable(p, network[p][j].body)'
             /\ ~Arrived(p, network[p][j].body.of)'
             /\ Reliability = "reliableOrdered"
                  => \A n \in DOMAIN delivered'[p] :
                       delivered'[p][n][0].of < network'[p][j].body.of
  <2>1. PICK l \in DOMAIN network[p] \ {i} : network'[p][j] = network[p][l]
    BY <1>3
  <2>0. PICK c : c = network[p][l].body
    OBVIOUS
  <2>2. /\ c # Hole /\ c # slice /\ ~InTable(p, c) /\ ~Arrived(p, c.of)
        /\ c.of \notin came
        /\ Reliability = "reliableOrdered"
             => \A n \in DOMAIN delivered[p] : delivered[p][n][0].of < c.of
    BY <1>1, <1>4, <1>7, <2>0, <2>1 DEF WireInv, Single
  <2>3. network'[p][j].body = c
    BY <2>0, <2>1
  <2>4. slice.of \in DOMAIN sent[p] /\ c.of \in DOMAIN sent[p]
        /\ sent[p] \in Seq(SentType)
    BY <1>1, <2>0, <2>2, OnlySent DEF ReassemblyInv, SendersInv
  <2>5. Reliability = "reliableOrdered" => slice.of <= c.of
    <3>1. ASSUME Reliability = "reliableOrdered" PROVE i < l
      BY <1>1, <2>1, <3>1
    <3> QED
      BY <1>1, <1>4, <2>0, <2>2, <3>1 DEF WireInv, Ordered
  <2> HIDE DEF slice
  <2>6. ~InTable(p, c)'
    BY <1>5, <2>2
  <2>7. ~Arrived(p, c.of)'
    BY <1>6, <2>2
  <2>8. ASSUME Reliability = "reliableOrdered", NEW n \in DOMAIN delivered'[p]
        PROVE  delivered'[p][n][0].of < c.of
    <3>1. CASE delivered'[p][n][0].of \in came
      <4>1. delivered'[p][n][0].of = slice.of /\ slice.of # c.of
        BY <2>2, <3>1 DEF slice
      <4> QED
        BY <2>4, <2>5, <2>8, <4>1
    <3>2. CASE n \in DOMAIN delivered[p] /\ delivered'[p][n] = delivered[p][n]
      BY <2>2, <2>8, <3>2
    <3> QED
      BY <3>1, <3>2
  <2> QED
    BY <2>3, <2>6, <2>7, <2>8 DEF InTable, Arrived
<1>8. WireInv(p)'
  <2>1. Single(network'[p])
    BY <1>1, <1>3, <1>4, PartKeeps DEF WireInv
  <2>2. Reliability = "reliableOrdered" => Ordered(network'[p])
    BY <1>1, <1>3, <1>4, PartKeeps DEF WireInv
  <2> QED
    BY <1>7, <2>1, <2>2 DEF WireInv
<1>9. ASSUME NEW q \in Peers \ {p} PROVE WireInv(q)'
  <2>1. network'[q] = network[q] /\ WireInv(q)
    BY <1>2 DEF OnePlaceInv
  <2>2. \A c : c # Hole /\ ~InTable(q, c) => ~InTable(q, c)'
    BY <1>5
  <2>3. \A k : ~Arrived(q, k) => ~Arrived(q, k)'
    BY <1>6
  <2>4. \A n \in DOMAIN delivered'[q] :
          n \in DOMAIN delivered[q] /\ delivered'[q][n] = delivered[q][n]
    OBVIOUS
  <2> QED
    BY <2>1, <2>2, <2>3, <2>4 DEF WireInv, InTable, Arrived
<1>10. ASSUME NEW q \in Peers PROVE TableInv(q)'
  <2> SUFFICES ASSUME NEW f \in pending', NEW x \in DOMAIN f.chunks,
                      f.peer = q, f.chunks[x] # Hole, Arrived(q, f.chunks[x].of)'
               PROVE  FALSE
    BY DEF TableInv
  <2> DEFINE c == f.chunks[x]
  <2>1. c.of \notin came \/ q # p
    OBVIOUS
  <2>2. Arrived(q, c.of)
    BY <1>6, <2>1
  <2>3. CASE InTable(q, c)
    <3>1. PICK e \in pending : /\ e.peer = q
                               /\ \E y \in DOMAIN e.chunks : e.chunks[y] = c
      BY <2>3 DEF InTable
    <3>2. PICK y \in DOMAIN e.chunks : e.chunks[y] = c
      BY <3>1
    <3> QED
      BY <2>2, <3>1, <3>2 DEF OnePlaceInv, TableInv
  <2>4. CASE q = p /\ c = slice
    BY <1>4, <2>2, <2>4
  <2> QED
    BY <2>3, <2>4
<1> QED
  BY <1>8, <1>9, <1>10 DEF OnePlaceInv

\* An entry that the packet's slice has filled a place of.
Filling(p, packet, filled) ==
  /\ GenuineEntry(p, sent[p], filled)
  /\ filled.peer = p /\ filled.id = packet.id
  /\ packet.index \in DOMAIN filled.chunks
  /\ filled.chunks[packet.index] = packet.body
  /\ \A x \in DOMAIN filled.chunks :
       \/ filled.chunks[x] = Hole \/ filled.chunks[x] = packet.body
       \/ InTable(p, filled.chunks[x])

\* What Store does, said of entries and not of fields: a repeat changes nothing;
\* else the slice fills its place in an entry of its own, which stays, goes, or
\* is delivered with every other entry of its id dropped.
LEMMA StoreOutcome ==
  ASSUME ReassemblyInv, NEW p \in Peers,
         NEW packet \in PacketType, GenuinePacket(p, sent[p], packet),
         Store(p, packet)
  PROVE  \/ pending' \subseteq pending /\ UNCHANGED delivered
         \/ \E filled :
              /\ Filling(p, packet, filled)
              /\ \/ /\ pending' \subseteq pending \cup {filled}
                    /\ UNCHANGED delivered
                 \/ /\ filled.received = filled.total
                    /\ pending' \subseteq
                         {e \in pending : ~HasKey(e, p, packet.id)}
                    /\ Deliver(p, filled.chunks)
<1> DEFINE mine == {e \in Live : HasKey(e, p, packet.id)}
           same == {e \in mine : e.total = packet.total}
           others == Live \ mine
           held == bytes - Freed(pending \ Live) - Freed(mine \ same)
           entry == IF same # {} THEN CHOOSE e \in same : TRUE
                    ELSE NewEntry(p, packet, others)
           length == packet.body.length
           filled == Fill(entry, packet.index, packet.body, length)
<1>1. Live \subseteq pending
  BY DEF Live
<1>2. /\ GenuineEntry(p, sent[p], entry)
      /\ entry.peer = p /\ entry.id = packet.id /\ entry.total = packet.total
      /\ \A x \in DOMAIN entry.chunks :
           entry.chunks[x] = Hole \/ InTable(p, entry.chunks[x])
  <2>1. CASE same # {}
    <3>1. entry \in same
      BY <2>1
    <3>2. entry \in pending /\ entry.peer = p /\ entry.id = packet.id
          /\ entry.total = packet.total
      BY <1>1, <3>1 DEF HasKey
    <3> HIDE DEF entry
    <3> QED
      BY <3>2 DEF ReassemblyInv, PendingInv, InTable
  <2>2. CASE same = {}
    <3>1. entry = NewEntry(p, packet, others)
      BY <2>2
    <3> HIDE DEF entry, others
    <3>2. entry.chunks = [x \in 0..(packet.total - 1) |-> Hole]
      BY <3>1 DEF NewEntry
    <3>3. /\ GenuineEntry(p, sent[p], NewEntry(p, packet, others))
          /\ NewEntry(p, packet, others).peer = p
          /\ NewEntry(p, packet, others).id = packet.id
          /\ NewEntry(p, packet, others).total = packet.total
      BY NewEntryIsGenuine
    <3> QED
      BY <3>1, <3>2, <3>3
  <2> QED
    BY <2>1, <2>2
<1>3. others \subseteq {e \in pending : ~HasKey(e, p, packet.id)}
  BY <1>1
<1>4. \/ pending' = Live /\ UNCHANGED delivered
      \/ /\ IsFree(entry, packet.index) /\ filled.received = filled.total
         /\ pending' = others /\ Deliver(p, filled.chunks)
      \/ /\ IsFree(entry, packet.index)
         /\ pending' \subseteq others \cup {filled} /\ UNCHANGED delivered
  BY DEF Store, Continues, EnforceBudget, Fill
<1> HIDE DEF entry, others
<1>5. ASSUME IsFree(entry, packet.index)
      PROVE  Filling(p, packet, filled)
  <2>1. /\ packet.index \in 0..(entry.total - 1) /\ packet.body \in Bodies
        /\ StandsAt(p, sent[p], packet.body, entry.id, entry.total,
                    packet.index)
    BY <1>2 DEF GenuinePacket, PacketType
  <2>2. entry.chunks[packet.index] = Hole
    BY <1>5 DEF IsFree
  <2>3. GenuineEntry(p, sent[p], filled) /\ filled.peer = p
    BY <1>2, <2>1, <2>2, FillKeepsGenuine
  <2>4. /\ entry.chunks \in [0..(entry.total - 1) -> Bodies]
        /\ entry = [peer |-> entry.peer, id |-> entry.id, total |-> entry.total,
                    chunks |-> entry.chunks, received |-> entry.received,
                    bytes |-> entry.bytes, age |-> entry.age,
                    born |-> entry.born]
    BY <1>2 DEF GenuineEntry
  <2>5. /\ filled.chunks = [entry.chunks EXCEPT ![packet.index] = packet.body]
        /\ filled.id = packet.id
    BY <1>2, <2>4 DEF Fill
  <2> HIDE DEF filled
  <2>6. \A x \in DOMAIN filled.chunks :
          \/ filled.chunks[x] = packet.body
          \/ x \in DOMAIN entry.chunks /\ filled.chunks[x] = entry.chunks[x]
    BY <2>4, <2>5
  <2>7. /\ packet.index \in DOMAIN filled.chunks
        /\ filled.chunks[packet.index] = packet.body
    BY <2>1, <2>4, <2>5
  <2> QED
    BY <1>2, <2>3, <2>5, <2>6, <2>7 DEF Filling
<1> HIDE DEF filled
<1>6. CASE pending' = Live /\ UNCHANGED delivered
  BY <1>1, <1>6
<1>7. CASE /\ IsFree(entry, packet.index) /\ filled.received = filled.total
           /\ pending' = others /\ Deliver(p, filled.chunks)
  BY <1>3, <1>5, <1>7
<1>8. CASE /\ IsFree(entry, packet.index)
           /\ pending' \subseteq others \cup {filled} /\ UNCHANGED delivered
  BY <1>3, <1>5, <1>8
<1> QED
  BY <1>4, <1>6, <1>7, <1>8

\* The slice of a packet, under its own number.
LEMMA BodyIsSlice ==
  ASSUME ReassemblyInv, NEW p \in Peers, NEW i \in DOMAIN network[p],
         network[p][i].body # Hole
  PROVE  LET packet == network[p][i]
             k == packet.body.of
         IN  /\ GenuinePacket(p, sent[p], packet)
             /\ k \in DOMAIN sent[p] /\ sent[p][k].id = packet.id
             /\ Total(sent[p][k].size) = packet.total
             /\ packet.index \in 0..(packet.total - 1)
             /\ packet.body = Slice(p, k, sent[p][k].size, packet.index)
BY DEF ReassemblyInv, NetworkInv, ForeignPacket, GenuinePacket, StandsAt

LEMMA ReceivePlaceInv ==
  ASSUME ReassemblyInv, IdsUnique, OnePlaceInv, NEW p \in Peers, Receive(p)
  PROVE  OnePlaceInv'
<1>1. PICK i \in Deliverable(p) :
        /\ Accept(p, network[p][i])
        /\ network' = [network EXCEPT ![p] = Without(@, i)]
        /\ UNCHANGED <<nextMessageId, sent, faults>>
  BY DEF Receive
<1> DEFINE packet == network[p][i]
           k == packet.body.of
<1>2. /\ network \in [Peers -> Seq(PacketType)] /\ network[p] \in Seq(PacketType)
      /\ i \in DOMAIN network[p] /\ packet \in PacketType
      /\ delivered \in [Peers -> Seq(Chunks)] /\ sent[p] \in Seq(SentType)
  BY DEF ReassemblyInv, NetworkInv, DeliveredInv, SendersInv, Deliverable
<1>3. WireInv(p)
  BY DEF OnePlaceInv
<1>4. CASE UNCHANGED <<pending, delivered>>
  <2>1. network' \in [Peers -> Seq(PacketType)]
    BY <1>1, <1>2, RestIsPart
  <2>2. \A q \in Peers : PartOf(network'[q], network[q])
    BY <1>1, <1>2, RestIsPart, PartOfItself
  <2> QED
    BY <1>4, <2>1, <2>2, LessInv
<1>5. ASSUME IsFragment(packet) PROVE packet.body # Hole
  <2>1. packet # ForeignPacket
    BY <1>5 DEF ForeignPacket, IsFragment
  <2>2. GenuinePacket(p, sent[p], packet)
    BY <1>2, <2>1 DEF ReassemblyInv, NetworkInv
  <2> QED
    BY <2>2 DEF GenuinePacket, StandsAt
<1>6. CASE /\ IsFragment(packet) /\ packet.total = 1
           /\ Deliver(p, [j \in {0} |-> packet.body])
           /\ UNCHANGED <<pending, bytes>>
  <2>1. packet.body # Hole
    BY <1>5, <1>6
  <2>2. \A q \in Peers : \A n \in DOMAIN delivered'[q] :
          \/ n \in DOMAIN delivered[q] /\ delivered'[q][n] = delivered[q][n]
          \/ q = p /\ delivered'[q][n][0].of \in {k}
    <3> DEFINE chunks == [j \in {0} |-> packet.body]
    <3>1. delivered' = [delivered EXCEPT ![p] = Append(@, chunks)]
      BY <1>6 DEF Deliver
    <3>2. chunks[0].of = k
      OBVIOUS
    <3> HIDE DEF chunks
    <3> QED
      BY <1>2, <3>1, <3>2
  <2>3. /\ Total(sent[p][k].size) = 1
        /\ packet.body = Slice(p, k, sent[p][k].size, 0)
    BY <1>2, <1>6, <2>1, BodyIsSlice
  <2>4. ASSUME NEW l \in DOMAIN network[p] \ {i}, network[p][l].body # Hole,
               network[p][l].body.of = k
        PROVE  FALSE
    <3>1. /\ network[p][l].index \in 0..(Total(sent[p][k].size) - 1)
          /\ network[p][l].body =
               Slice(p, k, sent[p][k].size, network[p][l].index)
      BY <2>4, BodyIsSlice
    <3>2. network[p][l].index = 0
      BY <2>3, <3>1
    <3>3. network[p][l].body = packet.body
      BY <2>3, <3>1, <3>2
    <3> QED
      BY <1>2, <1>3, <2>1, <2>4, <3>3 DEF WireInv, Single
  <2>5. ASSUME NEW f \in pending, NEW x \in DOMAIN f.chunks, f.peer = p,
               f.chunks[x] # Hole, f.chunks[x].of = k
        PROVE  FALSE
    <3>1. GenuineEntry(p, sent[p], f)
      BY <2>5 DEF ReassemblyInv, PendingInv
    <3>2. x \in 0..(f.total - 1) /\ f.total \in 1..MaxFragments
      BY <3>1 DEF GenuineEntry
    <3>3. StandsAt(p, sent[p], f.chunks[x], f.id, f.total, x)
      BY <2>5, <3>1, <3>2 DEF GenuineEntry
    <3>4. f.total = 1 /\ f.chunks[x] = Slice(p, k, sent[p][k].size, x)
      BY <2>3, <2>5, <3>3 DEF StandsAt
    <3>5. f.chunks[x] = packet.body
      BY <2>3, <3>2, <3>4
    <3> QED
      BY <1>2, <1>3, <2>1, <2>5, <3>5 DEF WireInv, InTable
  <2>6. \A f \in pending' : \A x \in DOMAIN f.chunks : InTable(f.peer, f.chunks[x])
    BY <1>6 DEF InTable
  <2>7. /\ {k} \subseteq {network[p][i].body.of}
        /\ \A l \in DOMAIN network[p] \ {i} :
             network[p][l].body # Hole => network[p][l].body.of \notin {k}
        /\ \A f \in pending' : \A x \in DOMAIN f.chunks :
             f.peer = p /\ f.chunks[x] # Hole => f.chunks[x].of \notin {k}
    BY <1>6, <2>4, <2>5
  <2>8. Takes(p, i, {k})
    BY <1>1, <2>1, <2>2, <2>6, <2>7 DEF Takes
  <2> QED
    BY <2>8, TakeInv
<1>7. CASE IsFragment(packet) /\ packet.total > 1 /\ Store(p, packet)
  <2>1. packet.body # Hole /\ GenuinePacket(p, sent[p], packet)
    BY <1>2, <1>5, <1>7, BodyIsSlice
  <2>2. CASE pending' \subseteq pending /\ UNCHANGED delivered
    <3>1. network' \in [Peers -> Seq(PacketType)]
      BY <1>1, <1>2, RestIsPart
    <3>2. \A q \in Peers : PartOf(network'[q], network[q])
      BY <1>1, <1>2, RestIsPart, PartOfItself
    <3> QED
      BY <2>2, <3>1, <3>2, LessInv
  <2>3. ASSUME NEW filled, Filling(p, packet, filled),
               \/ pending' \subseteq pending \cup {filled} /\ UNCHANGED delivered
               \/ /\ filled.received = filled.total
                  /\ pending' \subseteq {e \in pending : ~HasKey(e, p, packet.id)}
                  /\ Deliver(p, filled.chunks)
        PROVE  OnePlaceInv'
    <3>0. Filling(p, packet, filled)
      BY <2>3
    <3> HIDE DEF packet
    <3>1. ASSUME pending' \subseteq pending \cup {filled}, UNCHANGED delivered
          PROVE  OnePlaceInv'
      <4>1. \A f \in pending' : \A x \in DOMAIN f.chunks :
              \/ f.chunks[x] = Hole
              \/ InTable(f.peer, f.chunks[x])
              \/ f.peer = p /\ f.chunks[x] = packet.body
        BY <3>0, <3>1 DEF InTable, Filling
      <4>2. /\ {} \subseteq {network[p][i].body.of}
            /\ \A q \in Peers : \A n \in DOMAIN delivered'[q] :
                 n \in DOMAIN delivered[q] /\ delivered'[q][n] = delivered[q][n]
        BY <3>1
      <4>3. Takes(p, i, {})
        BY <1>1, <2>1, <4>1, <4>2 DEF Takes, packet
      <4> QED
        BY <4>3, TakeInv
    <3>2. ASSUME filled.received = filled.total,
                 pending' \subseteq {e \in pending : ~HasKey(e, p, packet.id)},
                 Deliver(p, filled.chunks)
          PROVE  OnePlaceInv'
      <4> DEFINE chunks == filled.chunks
      <4>1. GenuineMessage(p, sent[p], chunks) /\ chunks \in Chunks
        BY <3>0, <3>2, CompleteIsMessage DEF Filling
      <4>2. IsMessage(p, sent[p], chunks)
        BY <1>2, <4>1, UniqueIsMessage DEF IdsUnique
      <4>3. /\ chunks[0].of = k
            /\ DOMAIN chunks = 0..(Total(sent[p][k].size) - 1)
            /\ \A x \in DOMAIN chunks :
                 chunks[x] = Slice(p, k, sent[p][k].size, x)
        <5>1. packet.body = Slice(p, chunks[0].of,
                                  sent[p][chunks[0].of].size, packet.index)
          BY <3>0, <4>2 DEF IsMessage, Filling
        <5>2. k = chunks[0].of
          BY <5>1 DEF Slice
        <5> QED
          BY <4>2, <5>2 DEF IsMessage
      <4>4. \A q \in Peers : \A n \in DOMAIN delivered'[q] :
              \/ n \in DOMAIN delivered[q] /\ delivered'[q][n] = delivered[q][n]
              \/ q = p /\ delivered'[q][n][0].of \in {k}
        <5>1. delivered' = [delivered EXCEPT ![p] = Append(@, chunks)]
          BY <3>2 DEF Deliver
        <5> HIDE DEF chunks
        <5> QED
          BY <1>2, <4>1, <4>3, <5>1
      <4>5. ASSUME NEW l \in DOMAIN network[p] \ {i}, network[p][l].body # Hole,
                   network[p][l].body.of = k
            PROVE  FALSE
        <5>1. PICK x : x = network[p][l].index
          OBVIOUS
        <5>2. /\ x \in 0..(Total(sent[p][k].size) - 1)
              /\ network[p][l].body = Slice(p, k, sent[p][k].size, x)
          BY <4>5, <5>1, BodyIsSlice
        <5>3. x \in DOMAIN chunks /\ network[p][l].body = chunks[x]
          BY <4>3, <5>2
        <5>4. network[p][l].body # packet.body
          BY <1>2, <1>3, <2>1, <4>5 DEF WireInv, Single, packet
        <5>5. InTable(p, network[p][l].body)
          BY <3>0, <4>5, <5>3, <5>4 DEF Filling
        <5> QED
          BY <1>3, <4>5, <5>5 DEF WireInv
      <4>6. ASSUME NEW f \in pending', NEW x \in DOMAIN f.chunks, f.peer = p,
                   f.chunks[x] # Hole, f.chunks[x].of = k
            PROVE  FALSE
        <5>1. f \in pending /\ f.id # packet.id
          BY <3>2, <4>6 DEF HasKey
        <5>2. GenuineEntry(p, sent[p], f)
          BY <4>6, <5>1 DEF ReassemblyInv, PendingInv
        <5>3. StandsAt(p, sent[p], f.chunks[x], f.id, f.total, x)
          BY <4>6, <5>2 DEF GenuineEntry
        <5>4. sent[p][k].id = f.id
          BY <4>6, <5>3 DEF StandsAt
        <5>5. sent[p][k].id = packet.id
          BY <1>2, <2>1, BodyIsSlice DEF packet
        <5> QED
          BY <5>1, <5>4, <5>5
      <4>7. \A f \in pending' : \A x \in DOMAIN f.chunks :
              InTable(f.peer, f.chunks[x])
        BY <3>2 DEF InTable
      <4>8. /\ {k} \subseteq {network[p][i].body.of}
            /\ \A l \in DOMAIN network[p] \ {i} :
                 network[p][l].body # Hole => network[p][l].body.of \notin {k}
            /\ \A f \in pending' : \A x \in DOMAIN f.chunks :
                 f.peer = p /\ f.chunks[x] # Hole => f.chunks[x].of \notin {k}
        BY <4>5, <4>6 DEF packet
      <4> HIDE DEF chunks
      <4>9. Takes(p, i, {k})
        BY <1>1, <2>1, <4>4, <4>7, <4>8 DEF Takes, packet
      <4> QED
        BY <4>9, TakeInv
    <3> QED
      BY <2>3, <3>1, <3>2
  <2>4. \/ pending' \subseteq pending /\ UNCHANGED delivered
        \/ \E filled :
             /\ Filling(p, packet, filled)
             /\ \/ pending' \subseteq pending \cup {filled} /\ UNCHANGED delivered
                \/ /\ filled.received = filled.total
                   /\ pending' \subseteq
                        {e \in pending : ~HasKey(e, p, packet.id)}
                   /\ Deliver(p, filled.chunks)
    BY <1>2, <1>7, <2>1, StoreOutcome
  <2> QED
    BY <2>2, <2>3, <2>4
<1> QED
  BY <1>1, <1>4, <1>6, <1>7 DEF Accept, receiverVars, packet

LEMMA NextPlaceInv ==
  ASSUME ReassemblyInv, IdsUnique, OnePlaceInv, [Next]_vars,
         Reliability # "unreliableUnordered"
  PROVE  OnePlaceInv'
<1>1. ASSUME NEW p \in Peers, Send(p) PROVE OnePlaceInv'
  <2>1. PICK size \in Sizes : \E n \in 0..Total(size) : SendLarge(p, size, n)
    BY <1>1 DEF Send
  <2> QED
    BY <2>1, SendPlaceInv
<1>2. ASSUME NEW p \in Peers, Receive(p) PROVE OnePlaceInv'
  BY <1>2, ReceivePlaceInv
<1>3. CASE \/ ReceiverRestart \/ TimePasses
           \/ \E p \in Peers :
                DuplicatePacket(p) \/ SendForeign(p) \/ SenderRestart(p)
  BY <1>3, FaultLessInv
<1>4. CASE UNCHANGED vars
  BY <1>4 DEF vars, OnePlaceInv, WireInv, TableInv, InTable, Arrived
<1> QED
  BY <1>1, <1>2, <1>3, <1>4 DEF Next

-----------------------------------------------------------------------------
(* The channel.                                                            *)

Sent == [p \in Peers |-> Len(sent[p])]
Numbers == [p \in Peers |->
              [n \in DOMAIN delivered[p] |-> MessageOf(p, delivered[p][n])]]

\* The numbers of what was delivered do not change when messages are sent.
LEMMA NumbersStay ==
  ASSUME Numbered, Numbered', UNCHANGED delivered
  PROVE  UNCHANGED Numbers
<1>1. ASSUME NEW p \in Peers, NEW n \in DOMAIN delivered[p]
      PROVE  MessageOf(p, delivered[p][n])' = MessageOf(p, delivered[p][n])
  BY DEF Numbered
<1> QED
  BY <1>1 DEF Numbers

\* A packet that completes a message delivers the message of its own slice.
LEMMA ReceiveDelivers ==
  ASSUME ReassemblyInv, Numbered', NEW p \in Peers, Receive(p)
  PROVE  \/ UNCHANGED delivered
         \/ \E i \in DOMAIN network[p], chunks \in Chunks :
              /\ network[p][i].body # Hole
              /\ chunks[0].of = network[p][i].body.of
              /\ Deliver(p, chunks)
<1>1. PICK i \in Deliverable(p) : /\ Accept(p, network[p][i])
                                  /\ UNCHANGED sent
  BY DEF Receive
<1>2. PICK packet : packet = network[p][i]
  OBVIOUS
<1>3. /\ i \in DOMAIN network[p] /\ packet \in PacketType
      /\ delivered \in [Peers -> Seq(Chunks)]
  BY <1>2 DEF ReassemblyInv, NetworkInv, DeliveredInv, Deliverable
<1>4. ASSUME IsFragment(packet)
      PROVE  packet.body # Hole /\ GenuinePacket(p, sent[p], packet)
  <2>1. packet # ForeignPacket
    BY <1>4 DEF ForeignPacket, IsFragment
  <2>2. GenuinePacket(p, sent[p], packet)
    BY <1>2, <1>3, <2>1 DEF ReassemblyInv, NetworkInv
  <2> QED
    BY <2>2 DEF GenuinePacket, StandsAt
<1>5. CASE UNCHANGED delivered
  BY <1>5
<1>6. CASE IsFragment(packet) /\ Deliver(p, [j \in {0} |-> packet.body])
  <2> DEFINE chunks == [j \in {0} |-> packet.body]
  <2>1. chunks[0] = packet.body
    OBVIOUS
  <2>2. chunks \in Chunks
    <3>1. chunks \in [0..(1 - 1) -> Bodies]
      <4>1. {0} = 0..(1 - 1)
        OBVIOUS
      <4> QED
        BY <1>3, <4>1 DEF PacketType
    <3> HIDE DEF chunks
    <3> QED
      BY <3>1 DEF Chunks
  <2> HIDE DEF chunks
  <2>3. Deliver(p, chunks)
    BY <1>6 DEF chunks
  <2> QED
    BY <1>2, <1>3, <1>4, <1>6, <2>1, <2>2, <2>3
<1>7. CASE IsFragment(packet) /\ Store(p, packet) /\ ~UNCHANGED delivered
  <2>1. PICK filled : /\ Filling(p, packet, filled)
                      /\ filled.received = filled.total
                      /\ Deliver(p, filled.chunks)
    BY <1>3, <1>4, <1>7, StoreOutcome
  <2>2. filled.chunks \in Chunks
    BY <2>1, CompleteIsMessage DEF Filling
  <2>3. PICK chunks : chunks = filled.chunks
    OBVIOUS
  <2>4. /\ delivered' = [delivered EXCEPT ![p] = Append(@, chunks)]
        /\ chunks \in Chunks
    BY <2>1, <2>2, <2>3 DEF Deliver
  <2>5. /\ Len(delivered[p]) + 1 \in DOMAIN delivered'[p]
        /\ delivered'[p][Len(delivered[p]) + 1] = chunks
    BY <1>3, <2>4
  <2>6. IsMessage(p, sent'[p], chunks)
    BY <2>5 DEF Numbered
  <2>7. packet.index \in DOMAIN chunks /\ chunks[packet.index] = packet.body
    BY <2>1, <2>3 DEF Filling
  <2>8. packet.body = Slice(p, chunks[0].of, sent'[p][chunks[0].of].size,
                            packet.index)
    BY <2>6, <2>7 DEF IsMessage
  <2>9. packet.body.of = chunks[0].of
    BY <2>8 DEF Slice
  <2> QED
    BY <1>2, <1>3, <1>4, <1>7, <2>1, <2>3, <2>4, <2>9
<1> QED
  BY <1>1, <1>2, <1>5, <1>6, <1>7 DEF Accept, receiverVars

LEMMA DeliverIsStep ==
  ASSUME ReassemblyInv, OnePlaceInv, Numbered, Numbered', UNCHANGED sent,
         NEW p \in Peers, NEW i \in DOMAIN network[p], NEW chunks \in Chunks,
         network[p][i].body # Hole, chunks[0].of = network[p][i].body.of,
         Deliver(p, chunks)
  PROVE  \E k \in 1..Sent[p] : Channel!Deliver(p, k)
<1>1. PICK k : k = network[p][i].body.of
  OBVIOUS
<1>2. /\ delivered \in [Peers -> Seq(Chunks)]
      /\ sent[p] \in Seq(SentType)
  BY DEF ReassemblyInv, DeliveredInv, SendersInv
<1>3. k \in 1..Len(sent[p])
  BY <1>1, <1>2, OnlySent
<1>4. delivered' = [delivered EXCEPT ![p] = Append(@, chunks)]
  BY DEF Deliver
<1>5. /\ \A q \in Peers : \A n \in DOMAIN delivered[q] :
           /\ Numbers[q][n] = delivered[q][n][0].of
           /\ delivered[q][n][0].of \in DOMAIN sent[q]
      /\ \A q \in Peers : DOMAIN Numbers[q] = DOMAIN delivered[q]
  BY DEF Numbered, Numbers, IsMessage
<1>6. \A n \in DOMAIN Numbers[p] :
        /\ Numbers[p][n] # k
        /\ Reliability = "reliableOrdered" => Numbers[p][n] < k
  BY <1>1, <1>5 DEF OnePlaceInv, WireInv, Arrived
<1>7. /\ DOMAIN delivered'[p] = 1..(Len(delivered[p]) + 1)
      /\ delivered'[p][Len(delivered[p]) + 1] = chunks
      /\ \A n \in 1..Len(delivered[p]) : delivered'[p][n] = delivered[p][n]
      /\ \A q \in Peers \ {p} : delivered'[q] = delivered[q]
  BY <1>2, <1>4
<1>8. \A q \in Peers : \A n \in DOMAIN delivered'[q] :
        MessageOf(q, delivered[q][n])' = delivered'[q][n][0].of
  BY DEF Numbered
<1>9. Numbers' = [Numbers EXCEPT ![p] = Append(@, k)]
  <2>1. Numbers' = [q \in Peers |->
                      [n \in DOMAIN delivered'[q] |-> delivered'[q][n][0].of]]
    BY <1>8 DEF Numbers
  <2>2. \A q \in Peers \ {p} :
          [n \in DOMAIN delivered'[q] |-> delivered'[q][n][0].of] = Numbers[q]
    BY <1>5, <1>7 DEF Numbers
  <2>3. [n \in DOMAIN delivered'[p] |-> delivered'[p][n][0].of]
          = Append(Numbers[p], k)
    <3> DEFINE old == Numbers[p]
               new == [n \in DOMAIN delivered'[p] |-> delivered'[p][n][0].of]
    <3>1. /\ old = [n \in 1..Len(delivered[p]) |-> delivered[p][n][0].of]
          /\ \A n \in 1..Len(delivered[p]) : delivered[p][n][0].of \in Nat
      BY <1>2, <1>5 DEF Numbers
    <3>2. /\ old \in Seq(Nat) /\ Len(old) = Len(delivered[p])
          /\ \A n \in 1..Len(delivered[p]) : old[n] = delivered[p][n][0].of
      <4>1. Len(delivered[p]) \in Nat
        BY <1>2
      <4> HIDE DEF old
      <4> QED
        BY <3>1, <4>1
    <3>3. /\ DOMAIN new = 1..(Len(delivered[p]) + 1)
          /\ new[Len(delivered[p]) + 1] = k
          /\ \A n \in 1..Len(delivered[p]) : new[n] = delivered[p][n][0].of
          /\ new = [n \in 1..(Len(delivered[p]) + 1) |-> new[n]]
      BY <1>1, <1>2, <1>7
    <3> HIDE DEF old, new
    <3>4. Len(delivered[p]) \in Nat /\ k \in Nat
      BY <1>2, <1>3
    <3>5. \A n \in 1..(Len(delivered[p]) + 1) : new[n] \in Nat
      <4>1. \A n \in 1..(Len(delivered[p]) + 1) :
              n = Len(delivered[p]) + 1 \/ n \in 1..Len(delivered[p])
        BY <3>4
      <4> QED
        BY <3>1, <3>3, <3>4, <4>1
    <3>6. new \in [1..(Len(delivered[p]) + 1) -> Nat]
      BY <3>3, <3>5
    <3>7. new \in Seq(Nat) /\ Len(new) = Len(delivered[p]) + 1
      BY <3>4, <3>6
    <3>8. /\ Append(old, k) \in Seq(Nat)
          /\ Len(Append(old, k)) = Len(delivered[p]) + 1
          /\ Append(old, k)[Len(delivered[p]) + 1] = k
          /\ \A n \in 1..Len(delivered[p]) : Append(old, k)[n] = old[n]
      BY <3>2, <3>4
    <3>9. \A n \in 1..(Len(delivered[p]) + 1) : new[n] = Append(old, k)[n]
      <4>1. \A n \in 1..(Len(delivered[p]) + 1) :
              n = Len(delivered[p]) + 1 \/ n \in 1..Len(delivered[p])
        BY <3>4
      <4>2. \A n \in 1..Len(delivered[p]) : new[n] = Append(old, k)[n]
        BY <3>2, <3>3, <3>8
      <4> QED
        BY <3>3, <3>8, <4>1, <4>2
    <3>10. new = Append(old, k)
      <4> DEFINE app == Append(old, k)
      <4>1. app \in Seq(Nat) /\ Len(app) = Len(new)
        BY <3>7, <3>8
      <4>2. \A n \in 1..Len(new) : new[n] = app[n]
        BY <3>7, <3>9
      <4> HIDE DEF app
      <4>3. app \in [1..(Len(delivered[p]) + 1) -> Nat]
        BY <3>4, <3>7, <4>1
      <4>4. \A n \in 1..(Len(delivered[p]) + 1) : new[n] = app[n]
        BY <3>7, <4>2
      <4>5. new = app
        BY <3>6, <4>3, <4>4
      <4> QED
        BY <4>5 DEF app
    <3> QED
      BY <3>10 DEF old, new
  <2>4. Numbers = [q \in Peers |-> Numbers[q]]
    BY DEF Numbers
  <2> QED
    BY <2>1, <2>2, <2>3, <2>4
<1>10. Channel!Deliver(p, k)
  BY <1>6, <1>9 DEF Channel!Deliver, Numbers
<1> QED
  BY <1>3, <1>10 DEF Sent

LEMMA ChannelStep ==
  ASSUME ReassemblyInv, OnePlaceInv, Numbered, Numbered', [Next]_vars
  PROVE  [Channel!Next]_<<Sent, Numbers>>
<1>1. ASSUME NEW p \in Peers, Send(p) PROVE [Channel!Next]_<<Sent, Numbers>>
  <2>1. PICK size \in Sizes : \E n \in 0..Total(size) : SendLarge(p, size, n)
    BY <1>1 DEF Send
  <2>2. PICK n \in 0..Total(size) : SendLarge(p, size, n)
    BY <2>1
  <2>3. UNCHANGED delivered /\ UNCHANGED Numbers
    BY <2>2, NumbersStay DEF SendLarge, receiverVars
  <2>4. CASE UNCHANGED sent
    BY <2>3, <2>4 DEF Sent
  <2>5. CASE \E m : sent' = [sent EXCEPT ![p] = Append(@, m)] /\ m \in SentType
    <3>1. sent \in [Peers -> Seq(SentType)]
      BY DEF ReassemblyInv, SendersInv
    <3>2. Sent' = [Sent EXCEPT ![p] = @ + 1]
      <4>1. PICK m : sent' = [sent EXCEPT ![p] = Append(@, m)]
                     /\ m \in SentType
        BY <2>5
      <4>2. sent[p] \in Seq(SentType)
        BY <3>1
      <4>3. Len(Append(sent[p], m)) = Len(sent[p]) + 1
        BY <4>1, <4>2
      <4>4. /\ Len(sent'[p]) = Len(sent[p]) + 1
            /\ \A q \in Peers \ {p} : sent'[q] = sent[q]
        BY <3>1, <4>1, <4>3
      <4> QED
        BY <4>4 DEF Sent
    <3>3. Channel!Send(p)
      BY <2>3, <3>2 DEF Channel!Send, Sent, Numbers
    <3> QED
      BY <3>3 DEF Channel!Next
  <2>6. CASE ~(Total(size) > MaxFragments)
    <3> DEFINE m == [id |-> nextMessageId[p], size |-> size,
                     whole |-> n = Total(size)]
    <3>1. sent' = [sent EXCEPT ![p] = Append(@, m)]
      BY <2>2, <2>6 DEF SendLarge
    <3>2. nextMessageId[p] \in 1..MaxMessageId
      BY DEF ReassemblyInv, SendersInv
    <3>3. size \in Nat
      BY <2>1, ReassemblyAssumption
    <3>4. m \in SentType
      BY <3>2, <3>3 DEF SentType
    <3> HIDE DEF m
    <3> QED
      BY <2>5, <3>1, <3>4
  <2> QED
    BY <2>2, <2>4, <2>6 DEF SendLarge
<1>2. ASSUME NEW p \in Peers, Receive(p)
      PROVE  [Channel!Next]_<<Sent, Numbers>>
  <2>1. UNCHANGED sent
    BY <1>2 DEF Receive
  <2>2. CASE UNCHANGED delivered
    BY <2>1, <2>2, NumbersStay DEF Sent
  <2>3. CASE ~UNCHANGED delivered
    <3>1. \E k \in 1..Sent[p] : Channel!Deliver(p, k)
      BY <1>2, <2>1, <2>3, ReceiveDelivers, DeliverIsStep
    <3> QED
      BY <3>1 DEF Channel!Next, Sent
  <2> QED
    BY <2>2, <2>3
<1>3. CASE \/ ReceiverRestart \/ TimePasses \/ UNCHANGED vars
           \/ \E p \in Peers :
                DuplicatePacket(p) \/ SendForeign(p) \/ SenderRestart(p)
  <2>1. UNCHANGED <<sent, delivered>>
    BY <1>3 DEF ReceiverRestart, TimePasses, DuplicatePacket, SendForeign,
                SenderRestart, receiverVars, vars
  <2> QED
    BY <2>1, NumbersStay DEF Sent
<1> QED
  BY <1>1, <1>2, <1>3 DEF Next

\* index.js:181-251 and 627-647, as the two applications see them: over either
\* of the reliable modes a message arrives at most once, only after it was sent,
\* whole, and in order if the transport keeps it, whatever is lost to the budget,
\* the clock, a restart or a send that throws, as long as no peer uses an id
\* twice for messages of as many fragments.
THEOREM ReassemblyImplementsChannel ==
  ASSUME Reliability # "unreliableUnordered"
  PROVE  Spec /\ []IdsUnique => ImplementsChannel
<1>1. Init => Channel!Init
  BY DEF Init, Channel!Init
<1>2. ReassemblyInv /\ IdsUnique /\ OnePlaceInv /\ [Next]_vars => OnePlaceInv'
  BY NextPlaceInv
<1>3. ReassemblyInv /\ OnePlaceInv /\ Numbered /\ Numbered' /\ [Next]_vars
        => [Channel!Next]_<<[p \in Peers |-> Len(sent[p])],
                            [p \in Peers |->
                               [n \in DOMAIN delivered[p] |->
                                  MessageOf(p, delivered[p][n])]]>>
  BY ChannelStep DEF Sent, Numbers
<1>4. Spec => []ReassemblyInv
  BY SlicesStayGenuine
<1>5. Spec /\ []IdsUnique => []Numbered
  BY <1>4, MessagesNumbered, PTL
<1>6. Spec /\ []IdsUnique => []OnePlaceInv
  BY <1>2, <1>4, OnePlaceInit, PTL DEF Spec
<1> QED
  BY <1>1, <1>3, <1>4, <1>5, <1>6, PTL DEF Spec, ImplementsChannel, Channel!Spec

-----------------------------------------------------------------------------
(* The ids of a peer that stays up.                                        *)

\* No sender's process starts anew.
NobodyRestarts == [][\A p \in Peers : ~SenderRestart(p)]_vars

\* The k-th message of a peer has the id k, and the counter is one ahead, or
\* has wrapped around after the last id.
IdsInv ==
  \A p \in Peers :
    /\ Len(sent[p]) <= MaxSends
    /\ \A k \in DOMAIN sent[p] : sent[p][k].id = k
    /\ nextMessageId[p] = IF Len(sent[p]) = MaxMessageId THEN 1
                          ELSE Len(sent[p]) + 1

LEMMA CounterAdvances ==
  ASSUME NEW n \in Nat, n < MaxMessageId
  PROVE  ((n + 1) % MaxMessageId) + 1
           = IF n + 1 = MaxMessageId THEN 1 ELSE (n + 1) + 1
<1>1. PICK m \in Nat \ {0} : m = MaxMessageId
  BY ReassemblyAssumption
<1>2. CASE n + 1 = m
  BY <1>1, <1>2
<1>3. CASE n + 1 < m
  <2>1. (n + 1) % m = n + 1
    BY <1>1, <1>3
  <2> QED
    BY <1>1, <1>3, <2>1
<1> QED
  BY <1>1, <1>2, <1>3

LEMMA SendLargeIds ==
  ASSUME ReassemblyInv, IdsInv, MaxSends <= MaxMessageId,
         NEW p \in Peers, NEW size \in Sizes, Total(size) <= MaxFragments,
         NEW n, SendLarge(p, size, n)
  PROVE  IdsInv'
<1> DEFINE message == [id |-> nextMessageId[p], size |-> size,
                       whole |-> n = Total(size)]
<1>1. /\ sent \in [Peers -> Seq(SentType)] /\ sent[p] \in Seq(SentType)
      /\ nextMessageId \in [Peers -> 1..MaxMessageId]
  BY DEF ReassemblyInv, SendersInv
<1>2. ~(Total(size) > MaxFragments)
  BY TotalIsNat, ReassemblyAssumption
<1>3. /\ sent' = [sent EXCEPT ![p] = Append(@, message)]
      /\ nextMessageId' = [nextMessageId EXCEPT ![p] = (@ % MaxMessageId) + 1]
      /\ Len(sent[p]) < MaxSends
  BY <1>2 DEF SendLarge
<1>4. message.id = nextMessageId[p]
  OBVIOUS
<1> HIDE DEF message
<1>5. PICK m \in Nat : m = Len(sent[p])
  BY <1>1
<1>6. m < MaxSends /\ m < MaxMessageId /\ nextMessageId[p] = m + 1
  BY <1>3, <1>5, ReassemblyAssumption DEF IdsInv
<1>7. /\ sent'[p] = Append(sent[p], message)
      /\ nextMessageId'[p] = ((m + 1) % MaxMessageId) + 1
      /\ \A q \in Peers : q # p => /\ sent'[q] = sent[q]
                                   /\ nextMessageId'[q] = nextMessageId[q]
  BY <1>1, <1>3, <1>6
<1>8. /\ Len(sent'[p]) = m + 1
      /\ \A k \in DOMAIN sent'[p] :
           \/ k = m + 1 /\ sent'[p][k] = message
           \/ k \in DOMAIN sent[p] /\ sent'[p][k] = sent[p][k]
  BY <1>1, <1>5, <1>7
<1>9. /\ Len(sent'[p]) <= MaxSends
      /\ \A k \in DOMAIN sent'[p] : sent'[p][k].id = k
      /\ nextMessageId'[p] = IF Len(sent'[p]) = MaxMessageId THEN 1
                             ELSE Len(sent'[p]) + 1
  <2>1. Len(sent'[p]) <= MaxSends
    BY <1>6, <1>8, ReassemblyAssumption
  <2>2. \A k \in DOMAIN sent'[p] : sent'[p][k].id = k
    BY <1>4, <1>6, <1>8 DEF IdsInv
  <2>3. nextMessageId'[p] = IF m + 1 = MaxMessageId THEN 1 ELSE (m + 1) + 1
    BY <1>6, <1>7, CounterAdvances
  <2> QED
    BY <1>8, <2>1, <2>2, <2>3
<1> QED
  BY <1>7, <1>9 DEF IdsInv

LEMMA NextIds ==
  ASSUME ReassemblyInv, IdsInv, [Next]_vars,
         [\A p \in Peers : ~SenderRestart(p)]_vars,
         MaxSends <= MaxMessageId,
         \A size \in Sizes : Total(size) <= MaxFragments
  PROVE  IdsInv'
<1>1. CASE UNCHANGED <<sent, nextMessageId>>
  BY <1>1 DEF IdsInv
<1>2. ASSUME NEW p \in Peers, Send(p) PROVE IdsInv'
  BY <1>2, SendLargeIds DEF Send
<1>3. ASSUME NEW p \in Peers, SenderRestart(p)
      PROVE  UNCHANGED <<sent, nextMessageId>>
  BY <1>3 DEF vars
<1> QED
  BY <1>1, <1>2, <1>3
     DEF Next, Receive, DuplicatePacket, SendForeign, ReceiverRestart,
         TimePasses, vars

\* index.js, sendLarge: a peer that stays up, sends payloads that fragment()
\* takes, and sends no more of them than there are ids, never uses one twice.
\* (An id is used up by a payload that is refused as well.)
THEOREM IdsUniqueWhileUp ==
  ASSUME MaxSends <= MaxMessageId,
         \A size \in Sizes : Total(size) <= MaxFragments
  PROVE  Spec /\ NobodyRestarts => []IdsUnique
<1>1. Init => IdsInv
  <2> SUFFICES ASSUME Init PROVE IdsInv
    OBVIOUS
  <2> QED
    BY ReassemblyAssumption DEF Init, IdsInv
<1>2. /\ ReassemblyInv /\ IdsInv /\ [Next]_vars
      /\ [\A p \in Peers : ~SenderRestart(p)]_vars
      => IdsInv'
  BY NextIds
<1>3. IdsInv => IdsUnique
  BY DEF IdsInv, IdsUnique
<1> QED
  BY <1>1, <1>2, <1>3, SlicesStayGenuine, PTL DEF Spec, NobodyRestarts

\* No message is a mixture of two while the peers stay up (index.js:206-207).
THEOREM NoMixingWhileUp ==
  ASSUME MaxSends <= MaxMessageId,
         \A size \in Sizes : Total(size) <= MaxFragments
  PROVE  Spec /\ NobodyRestarts => []NoMixing
<1>1. IntactWhileIdsUnique /\ IdsUnique => NoMixing
  BY DEF IntactWhileIdsUnique
<1> QED
  BY <1>1, IdsUniqueWhileUp, IntactWhileIdsUniqueHolds, PTL

\* And then sendLarge and 'p2p:message' are the channel, without a proviso on
\* the ids.
THEOREM ChannelWhileUp ==
  ASSUME Reliability # "unreliableUnordered", MaxSends <= MaxMessageId,
         \A size \in Sizes : Total(size) <= MaxFragments
  PROVE  Spec /\ NobodyRestarts => ImplementsChannel
BY IdsUniqueWhileUp, ReassemblyImplementsChannel, PTL
=============================================================================
