------------------------------ MODULE BpNetwork ------------------------------
(***************************************************************************)
(* Agents of several nodes and the bundles on their way between them: one  *)
(* ADU is sent with custody, cut into pieces, signalled piece by piece,    *)
(* reassembled and received.                                               *)
(*                                                                         *)
(* A convergence layer hands a bundle to the node behind it.  A bundle in  *)
(* net may arrive in any order, or never; it arrives once each time it is  *)
(* sent, for a custodian that sends it again before it has arrived could   *)
(* as well have done so just after.                                        *)
(***************************************************************************)
EXTENDS BpHandlers6

CONSTANTS
  Nodes, Source, Destination,
  AgentEid,     \* m_eid of each node
  SendEid, ReceiveEid,  \* the endpoints of the two applications
  Behind,       \* the node behind each CLA
  RouteOf,      \* what the routing agent of each node answers
  AduSize,      \* size of the ADU
  AduLife,      \* lifetimes an application may ask for
  MaxSignals    \* bound on sequence numbers given out by a node, for model checking

ASSUME NetworkAssumption ==
  /\ Source \in Nodes /\ Destination \in Nodes \ {Source}
  /\ AgentEid \in [Nodes -> Eids \ {defaultEid}]
  /\ {SendEid, ReceiveEid} \subseteq Eids \ {defaultEid}
  /\ NoCla \notin Clas /\ Behind \in [Clas -> Nodes]
  /\ RouteOf \in [Nodes -> [Eids -> Clas \cup {NoCla}]]
  /\ AduSize \in Nat /\ AduLife \subseteq Lifetimes /\ MaxSignals \in Nat

VARIABLES
  node,     \* the agent of each node
  net,      \* bundles on their way: the node they go to, and the bundle
  reached,  \* history: the bytes of the ADU handed to the destination's agent
  expired,  \* history: the custodian's lifetime has ended
  taken     \* history: the sizes of what the application received

vars == <<node, net, reached, expired, taken>>

----------------------------------------------------------------------------
LocalEids(n) ==
  {AgentEid[n]} \cup (IF n = Source THEN {SendEid} ELSE {})
                \cup (IF n = Destination THEN {ReceiveEid} ELSE {})

(* A scenario without relays: no endpoint is local to two nodes, the        *)
(* receiver's endpoint is not the agent's own, and what a node routes is    *)
(* routed to where it is local.                                             *)
Direct ==
  /\ ReceiveEid # AgentEid[Destination]
  /\ \A n1, n2 \in Nodes : n1 # n2 => LocalEids(n1) \cap LocalEids(n2) = {}
  /\ \A n \in Nodes, e \in Eids :
       RouteOf[n][e] # NoCla => e \in LocalEids(Behind[RouteOf[n][e]])

(* The scenario has registered all endpoints as active; links are down.    *)
InitAgent(n) ==
  [eid |-> AgentEid[n],
   reg |-> [e \in Eids |-> IF e \in LocalEids(n) THEN "active" ELSE "none"],
   ready |-> [c \in Clas |-> FALSE],
   route |-> RouteOf[n],
   seq |-> 0,
   heap |-> [r \in Refs |-> NoBundle],
   store |-> {}, expiry |-> {}, retrans |-> {}, lost |-> {},
   sent |-> [r \in Refs |-> <<>>]]

(* The bundles a step of node n has handed to its convergence layers.      *)
Handed(a) ==
  {[to |-> Behind[OutgoingCla(a, b.dst)], bundle |-> b] :
     b \in UNION {{a.sent[r][k] : k \in 1..Len(a.sent[r])} : r \in Refs}}

(* Agent n goes to state a, and takes the messages of used from the net.   *)
Step(n, a, used) ==
  /\ node' = [node EXCEPT ![n] = Collect(Quiet(a))]
  /\ net' = (net \ used) \cup Handed(a)

IsAdu(b) == b.src = SendEid /\ b.id = 0
Copies(n) == {r \in node[n].store : IsAdu(node[n].heap[r])}
AduBytes == 0 .. (AduSize - 1)
BytesOf(b) == b.off .. (End(b) - 1)

----------------------------------------------------------------------------
Adu(life) ==
  [src |-> SendEid, dst |-> ReceiveEid, size |-> AduSize, content |-> AppData,
   life |-> life, custody |-> TRUE, prio |-> 0]

AppSend(life, r, late) ==
  /\ node[Source].seq = 0
  /\ r \in Free(node[Source])
  /\ Step(Source, Send(node[Source], r, Adu(life), late), {})
  /\ expired' = (late /\ life = "finite")
  /\ UNCHANGED <<reached, taken>>

Receive ==
  \E r \in Receivable(node[Destination], ReceiveEid) :
    /\ Step(Destination, Remove(node[Destination], {r}), {})
    /\ taken' = taken \cup {node[Destination].heap[r].size}
    /\ UNCHANGED <<reached, expired>>

(* The bundle m arrives at its node.                                       *)
Arrive(m, r, late, r2, late2) ==
  LET a == node[m.to] IN
  /\ m.bundle.custody => a.seq < MaxSignals
  /\ {r, r2} \subseteq Free(a) /\ r # r2
  /\ \E outcome \in ProcessBundle(a, m.bundle, r, late, r2, late2) :
       Step(m.to, outcome, {m})
  /\ reached' = IF m.to = Destination /\ IsAdu(m.bundle)
                THEN reached \cup BytesOf(m.bundle) ELSE reached
  /\ UNCHANGED <<expired, taken>>

Expire(n, r) ==
  /\ r \in node[n].expiry
  /\ Step(n, Remove(node[n], {r}), {})
  /\ expired' = (expired \/ (n = Source /\ IsAdu(node[n].heap[r])))
  /\ UNCHANGED <<reached, taken>>

Retransmit(n, r) ==
  /\ r \in node[n].retrans
  /\ Step(n, Forward([node[n] EXCEPT !.retrans = @ \ {r}], {r}), {})
  /\ UNCHANGED <<reached, expired, taken>>

(* A link comes up, which the scenario tells the agent, or goes down.      *)
LinkUp(n, c) ==
  /\ ~ node[n].ready[c]
  /\ LET up == [node[n] EXCEPT !.ready[c] = TRUE] IN
     Step(n, Forward(up, GetForwardPendingBundles(up, c)), {})
  /\ UNCHANGED <<reached, expired, taken>>

LinkDown(n, c) ==
  /\ node[n].ready[c]
  /\ Step(n, [node[n] EXCEPT !.ready[c] = FALSE], {})
  /\ UNCHANGED <<reached, expired, taken>>

----------------------------------------------------------------------------
Init ==
  /\ node = [n \in Nodes |-> InitAgent(n)]
  /\ net = {} /\ reached = {} /\ expired = FALSE /\ taken = {}

(* Only a bundle with a finite lifetime may be found expired.              *)
Lateness(life) == IF life = "finite" THEN BOOLEAN ELSE {FALSE}

Application ==
  \/ \E life \in AduLife, r \in Refs : \E late \in Lateness(life) : AppSend(life, r, late)
  \/ Receive

Network ==
  \E m \in net, r, r2 \in Refs : \E late, late2 \in Lateness(m.bundle.life) :
    Arrive(m, r, late, r2, late2)

Timer == \E n \in Nodes, r \in Refs : Expire(n, r) \/ Retransmit(n, r)

(* Links used by the routes of a node.                                     *)
LinksOf(n) == {c \in Clas : \E e \in Eids : RouteOf[n][e] = c}
Links == \E n \in Nodes : \E c \in LinksOf(n) : LinkUp(n, c) \/ LinkDown(n, c)

Next == Application \/ Network \/ Timer \/ Links
Spec == Init /\ [][Next]_vars

----------------------------------------------------------------------------
(* Custody of the ADU at the source, as CustodyTransfer sees it.           *)
Custody ==
  IF node[Source].seq = 0 THEN "none"
  ELSE IF expired THEN "expired"
  ELSE IF Copies(Source) # {} THEN "held" ELSE "released"

Transfer == INSTANCE CustodyTransfer WITH custody <- Custody

(* The agents implement custody transfer: whatever is lost, late or sent   *)
(* again, the signals a destination generates make the custodian release   *)
(* the ADU only when each byte has come to the destination, and no part of *)
(* it is given to the application for the whole (SendCustodySignal,        *)
(* EnqueueForDeliveryToApplication on either side, Forward, Receive).      *)
CustodyIsTransferred == Transfer!Spec

(* Coalescing in EnqueueForDeliveryToApplication: whatever the order in    *)
(* which the pieces come, and come again, what is stored at the            *)
(* destination stays within the ADU, and counts as whole, so that Receive  *)
(* returns it, exactly when it reaches from the first byte to the last.    *)
ReassemblyIsExact ==
  \A r \in Copies(Destination) :
    LET b == node[Destination].heap[r] IN
    /\ End(b) <= b.aduLen
    /\ ~ b.frag <=> b.off = 0 /\ b.size = b.aduLen

(* "This methods stores the received bundles in a persistent bundle        *)
(* storage" (bp-agent.h:203): once the custodian has released the ADU, it  *)
(* is stored at the destination until the application takes it.            *)
ReleasedIsStored ==
  Custody = "released" /\ taken = {} =>
    AduBytes \subseteq UNION {BytesOf(node[Destination].heap[r]) : r \in Copies(Destination)}

(* "Bundle is/isn't a fragment" (bp-header.h:52), on which Receive relies  *)
(* to leave fragments alone: a bundle without the flag carries its ADU     *)
(* from the first byte to the last.                                        *)
FragmentsAreFlagged ==
  \A m \in net : ~ m.bundle.frag => m.bundle.size = m.bundle.aduLen
=============================================================================
