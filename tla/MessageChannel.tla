--------------------------- MODULE MessageChannel ---------------------------
(***************************************************************************)
(* What sendLarge and 'p2p:message' promise together, seen by the two      *)
(* applications: a message is delivered at most once, and only after it    *)
(* was sent; over an ordered transport the messages of a peer arrive in    *)
(* the order they were sent.  A message may be lost.                       *)
(***************************************************************************)
EXTENDS Naturals, Sequences

CONSTANTS
  Peers,    \* the peers that send to this one
  InOrder   \* whether the transport keeps the order of a peer's packets

VARIABLES
  sent,      \* how many messages each peer has sent
  delivered  \* the messages of each peer that arrived, by their number

Init ==
  /\ sent = [p \in Peers |-> 0]
  /\ delivered = [p \in Peers |-> << >>]

Send(p) == sent' = [sent EXCEPT ![p] = @ + 1] /\ UNCHANGED delivered

\* Message k of p arrives: it was not delivered before, nor was, when order is
\* kept, one that was sent after it.
Deliver(p, k) ==
  /\ \A i \in DOMAIN delivered[p] :
       delivered[p][i] # k /\ (InOrder => delivered[p][i] < k)
  /\ delivered' = [delivered EXCEPT ![p] = Append(@, k)]
  /\ UNCHANGED sent

Next == \E p \in Peers : Send(p) \/ \E k \in 1..sent[p] : Deliver(p, k)

Spec == Init /\ [][Next]_<<sent, delivered>>
=============================================================================
