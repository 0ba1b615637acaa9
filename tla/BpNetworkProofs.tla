--------------------------- MODULE BpNetworkProofs ---------------------------
(***************************************************************************)
(* Custody transfer between a source and a destination, for every number   *)
(* of nodes and objects, every ADU and bundle size, every lifetime and     *)
(* every order of arrivals, losses, expiries, retransmissions and links    *)
(* that come and go, in scenarios without relays (Direct).                 *)
(***************************************************************************)
EXTENDS BpNetwork, BpHandlers6Proofs

(* What never changes in a bundle of the ADU.                              *)
OfAdu(b) ==
  /\ b \in Bundles
  /\ b.src = SendEid /\ b.dst = ReceiveEid /\ b.id = 0 /\ b.aduLen = AduSize
  /\ b.content = AppData /\ b.custody /\ b.custEid = AgentEid[Source]

(* A piece of the ADU on its way.                                          *)
AduPiece(b) == OfAdu(b) /\ IsReceived(b)

(* The custodian's copy is the whole ADU, and what has been acknowledged   *)
(* of it is among the bytes R that the destination has got.                *)
AtSource(b, R) ==
  /\ OfAdu(b) /\ b.size = AduSize /\ CA \in b.ret
  /\ b.acks # NoAcks => b.acks[1] .. (b.acks[2] - 1) \subseteq R

(* A piece at the destination, joined with others or not, covers bytes     *)
(* that the destination has got, and counts as whole when it is.           *)
AtDestination(b, R) ==
  /\ OfAdu(b) /\ b.ret = {DP}
  /\ b.size > 0 /\ End(b) <= AduSize /\ BytesOf(b) \subseteq R
  /\ ~ b.frag <=> b.off = 0 /\ b.size = AduSize

(* A custody signal names the ADU and bytes that the destination has got.  *)
SignalContent(c, R) ==
  /\ c \in CustodySignals /\ c.src = SendEid /\ c.id = 0
  /\ c.off .. (c.off + c.len - 1) \subseteq R

SignalBundle(b, R) ==
  /\ b \in Bundles /\ b.src = AgentEid[Destination] /\ b.dst = AgentEid[Source]
  /\ ~ b.custody /\ ~ b.frag /\ b.off = 0 /\ b.size = 1 /\ b.aduLen = 1
  /\ SignalContent(b.content, R)

(* The messages between the two.                                           *)
MessageInv(m, R) ==
  \/ m.to = Destination /\ AduPiece(m.bundle)
  \/ m.to = Source /\ SignalBundle(m.bundle, R) /\ IsReceived(m.bundle)

----------------------------------------------------------------------------
(* The state of a node.                                                    *)
Referred(a) == a.store \cup a.retrans

SourceHolds(a, R) == \A r \in Referred(a) : AtSource(a.heap[r], R)

WaitingSignal(b, R) == SignalBundle(b, R) /\ b.ret = {FP}

DestinationHolds(a, R) ==
  \A r \in Referred(a) : AtDestination(a.heap[r], R) \/ WaitingSignal(a.heap[r], R)

Configured(n, a) ==
  /\ a.eid = AgentEid[n] /\ a.route = RouteOf[n]
  /\ a.reg = [e \in Eids |-> IF e \in LocalEids(n) THEN "active" ELSE "none"]

(* Node n in state a, between the calls of a handler.                      *)
Holds(n, a, R) ==
  /\ n = Source => SourceHolds(a, R)
  /\ n = Destination => DestinationHolds(a, R)
  /\ n \notin {Source, Destination} => Referred(a) = {}

NodeInv(n, a, R) ==
  /\ AgentInv(a) /\ Configured(n, a) /\ Holds(n, a, R)
  /\ \A r \in Refs : a.sent[r] = <<>>

(* Node n at the end of a handler that has ended in state a.               *)
Outcome(n, a, R) ==
  /\ AgentInv(a) /\ Configured(n, a) /\ Holds(n, a, R)
  /\ \A m \in Handed(a) : MessageInv(m, R)

(* Before the ADU is sent nothing is stored or on its way.                 *)
Idle(nodes, messages, R) ==
  /\ messages = {} /\ R = {}
  /\ \A n \in Nodes : Referred(nodes[n]) = {}

NetInv(nodes, messages, R) ==
  /\ nodes = [n \in Nodes |-> nodes[n]]
  /\ \A n \in Nodes : NodeInv(n, nodes[n], R)
  /\ \A m \in messages : MessageInv(m, R)
  /\ R \subseteq AduBytes
  /\ nodes[Source].seq = 0 => Idle(nodes, messages, R)

----------------------------------------------------------------------------
(* Bundles.                                                                *)

(* Routes lead straight to the two nodes.                                  *)
LEMMA Routed ==
  ASSUME Direct, NEW n \in Nodes, NEW e \in Eids, RouteOf[n][e] # NoCla
  PROVE  /\ e = ReceiveEid => Behind[RouteOf[n][e]] = Destination
         /\ e = AgentEid[Source] => Behind[RouteOf[n][e]] = Source
<1>1. RouteOf[n][e] \in Clas  BY NetworkAssumption
<1>2. Behind[RouteOf[n][e]] \in Nodes  BY <1>1, NetworkAssumption
<1>3. e \in LocalEids(Behind[RouteOf[n][e]])  BY DEF Direct
<1>4. Source \in Nodes /\ Destination \in Nodes  BY NetworkAssumption
<1>5. ReceiveEid \in LocalEids(Destination) /\ AgentEid[Source] \in LocalEids(Source)
  BY DEF LocalEids
<1> QED BY <1>2, <1>3, <1>4, <1>5 DEF Direct

(* The two agents have endpoints of their own.                             *)
LEMMA Endpoints ==
  ASSUME Direct
  PROVE  /\ AgentEid[Source] # AgentEid[Destination]
         /\ AgentEid[Source] # ReceiveEid /\ AgentEid[Destination] # SendEid
         /\ AgentEid[Destination] # ReceiveEid /\ SendEid # ReceiveEid
         /\ AgentEid[Source] \in Eids /\ AgentEid[Destination] \in Eids
         /\ SendEid \in Eids /\ ReceiveEid \in Eids
         /\ Source \in Nodes /\ Destination \in Nodes /\ Source # Destination
<1>1. Source \in Nodes /\ Destination \in Nodes /\ Source # Destination
  BY NetworkAssumption
<1>2. LocalEids(Source) \cap LocalEids(Destination) = {}  BY <1>1 DEF Direct
<1>3. /\ AgentEid[Source] \in LocalEids(Source) /\ SendEid \in LocalEids(Source)
      /\ AgentEid[Destination] \in LocalEids(Destination)
      /\ ReceiveEid \in LocalEids(Destination)
  BY DEF LocalEids
<1>4. /\ AgentEid[Source] \in Eids /\ AgentEid[Destination] \in Eids
      /\ SendEid \in Eids /\ ReceiveEid \in Eids
  BY <1>1, NetworkAssumption
<1> QED BY <1>1, <1>2, <1>3, <1>4 DEF Direct

(* Forwarding a custodian's copy, or failing to, leaves it one: in custody *)
(* and so in the store, with its acknowledgements.                         *)
LEMMA AtSourceForwarded ==
  ASSUME NEW b, NEW R, AtSource(b, R)
  PROVE  /\ b \in Bundles
         /\ AtSource(Forwarded(b), R) /\ AtSource(Contraindicated(b), R)
         /\ Forwarded(b).ret # {} /\ Contraindicated(b).ret # {}
<1>1. b \in Bundles  BY DEF AtSource, OfAdu
<1>2. CA \notin {DP, FP}  BY DEF CA, DP, FP
<1>3. /\ Forwarded(b) \in Bundles /\ Forwarded(b).ret = b.ret \ {DP, FP}
      /\ Contraindicated(b) \in Bundles
      /\ Contraindicated(b).ret = (b.ret \ {DP}) \cup {FP}
  BY <1>1, ForwardedTyped, ContraindicatedTyped
<1>4. SameAdu(Forwarded(b), b) /\ SameAdu(Contraindicated(b), b)  BY <1>1, ForwardedAdu
<1> QED BY <1>1, <1>2, <1>3, <1>4 DEF AtSource, OfAdu, SameAdu

(* What Forward transmits of it are pieces of the ADU.                     *)
LEMMA AtSourceTransmitted ==
  ASSUME NEW b, NEW R, AtSource(b, R), NEW k \in 1..Len(Transmission(b))
  PROVE  AduPiece(Transmission(b)[k])
<1>1. b \in Bundles /\ b.size = b.aduLen  BY DEF AtSource, OfAdu
<1>2. Pieces(b) \in Nat
  <2>1. b.size \in Nat /\ BundleSize \in Nat \ {0}  BY <1>1, BundleAssumption DEF Bundles
  <2> QED BY <2>1 DEF Pieces
<1>3. Len(Transmission(b)) = Pieces(b)  BY <1>2 DEF Transmission
<1>4. k \in 1..Pieces(b) /\ Transmission(b)[k] = Piece(b, k)  BY <1>3 DEF Transmission
<1> DEFINE p == Piece(b, k)
<1>5. /\ p \in Bundles /\ IsReceived(p)
      /\ p.src = b.src /\ p.dst = b.dst /\ p.id = b.id /\ p.aduLen = b.aduLen
      /\ p.custody = b.custody /\ p.custEid = b.custEid /\ p.content = b.content
  BY <1>1, <1>4, PieceIsReceived
<1> QED BY <1>4, <1>5 DEF AduPiece, OfAdu, AtSource

(* A custody signal that waits for a CLA is sent in one piece and leaves   *)
(* no constraint behind.                                                   *)
LEMMA SignalForwarded ==
  ASSUME NEW b, NEW R, SignalBundle(b, R), b.ret \subseteq {DP, FP}
  PROVE  /\ Forwarded(b).ret = {}
         /\ WaitingSignal(Contraindicated(b), R)
         /\ \A k \in 1..Len(Transmission(b)) :
              SignalBundle(Transmission(b)[k], R) /\ IsReceived(Transmission(b)[k])
<1>1. b \in Bundles /\ b.size = b.aduLen  BY DEF SignalBundle
<1>2. /\ Forwarded(b).ret = b.ret \ {DP, FP}
      /\ Contraindicated(b) \in Bundles
      /\ Contraindicated(b).ret = (b.ret \ {DP}) \cup {FP}
  BY <1>1, ForwardedTyped, ContraindicatedTyped
<1>3. SameAdu(Contraindicated(b), b)  BY <1>1, ForwardedAdu
<1>4. /\ Contraindicated(b).off = b.off /\ Contraindicated(b).frag = b.frag
  BY <1>1 DEF Contraindicated, Bundles
<1>5. WaitingSignal(Contraindicated(b), R)
  BY <1>2, <1>3, <1>4 DEF WaitingSignal, SignalBundle, SameAdu
<1>6. ASSUME NEW k \in 1..Len(Transmission(b))
      PROVE  SignalBundle(Transmission(b)[k], R) /\ IsReceived(Transmission(b)[k])
  <2>1. b.size = 1 /\ BundleSize \in Nat \ {0}  BY BundleAssumption DEF SignalBundle
  <2>2. Pieces(b) = 1 /\ ~ MustFragment(b)  BY <2>1 DEF Pieces, MustFragment
  <2>3. k \in 1..Pieces(b) /\ k = 1 /\ Transmission(b)[k] = Piece(b, k)
    BY <2>2 DEF Transmission
  <2> DEFINE p == Piece(b, k)
  <2>4. /\ p \in Bundles /\ IsReceived(p)
        /\ p.src = b.src /\ p.dst = b.dst /\ p.id = b.id /\ p.aduLen = b.aduLen
        /\ p.custody = b.custody /\ p.custEid = b.custEid /\ p.content = b.content
    BY <1>1, <2>3, PieceIsReceived
  <2>5. p.frag = FALSE /\ p.off = 0 /\ p.size = 1
    BY <1>1, <2>1, <2>2, <2>3 DEF Piece, PieceOffset, PieceSize, Bundles
  <2> HIDE DEF p
  <2> QED BY <2>3, <2>4, <2>5 DEF SignalBundle, p
<1> QED BY <1>2, <1>5, <1>6

(* Merging an acknowledgement keeps what is acknowledged within the bytes  *)
(* the destination has got; if that is the whole ADU, it has got it all.   *)
LEMMA AtSourceAcked ==
  ASSUME NEW b, NEW R, AtSource(b, R), NEW c, SignalContent(c, R)
  PROVE  /\ AtSource(Acked(b, c), R)
         /\ FullyAcked(Acked(b, c)) => AduBytes \subseteq R
<1> DEFINE ack == <<c.off, c.off + c.len>>
           d == Acked(b, c)
<1>1. b \in Bundles /\ b.acks \in Acks  BY DEF AtSource, OfAdu, Bundles
<1>2. /\ c.off \in Nat /\ c.len \in Nat /\ ack \in Nat \X Nat
      /\ ack[1] .. (ack[2] - 1) \subseteq R
  BY DEF SignalContent, CustodySignals
<1> HIDE DEF ack
<1>3. d = [b EXCEPT !.acks = MergeAck(b.acks, ack)]  BY DEF Acked, ack
<1>4. MergeAck(b.acks, ack) \in Acks  BY <1>1, <1>2, MergeAckTyped
<1>5. d \in Bundles /\ d.acks = MergeAck(b.acks, ack)  BY <1>1, <1>3, <1>4 DEF Bundles
<1>6. d.acks[1] .. (d.acks[2] - 1) \subseteq R
  <2>1. CASE b.acks = NoAcks
    <3>1. d.acks = ack  BY <1>5, <2>1 DEF MergeAck
    <3> QED BY <1>2, <3>1
  <2>2. CASE b.acks # NoAcks
    <3>1. /\ b.acks \in Nat \X Nat
          /\ b.acks[1] .. (b.acks[2] - 1) \subseteq R
      BY <1>1, <2>2 DEF Acks, AtSource
    <3>2. d.acks = << IF ack[2] = b.acks[1] THEN ack[1] ELSE b.acks[1],
                      IF b.acks[2] = ack[1] THEN ack[2] ELSE b.acks[2] >>
      BY <1>5, <2>2 DEF MergeAck
    <3>3. \A i \in Int : b.acks[1] <= i /\ i < b.acks[2] => i \in R  BY <3>1
    <3>4. \A i \in Int : ack[1] <= i /\ i < ack[2] => i \in R  BY <1>2
    <3> DEFINE x == b.acks[1]
               y == b.acks[2]
               p == ack[1]
               s == ack[2]
    <3>5. x \in Nat /\ y \in Nat /\ p \in Nat /\ s \in Nat  BY <1>2, <3>1
    <3>6. d.acks[1] = IF s = x THEN p ELSE x  BY <3>2
    <3>7. d.acks[2] = IF y = p THEN s ELSE y  BY <3>2
    <3> HIDE DEF x, y, p, s
    <3>8. \A i \in Int : x <= i /\ i < y => i \in R  BY <3>3 DEF x, y
    <3>9. \A i \in Int : p <= i /\ i < s => i \in R  BY <3>4 DEF p, s
    <3> QED BY <3>5, <3>6, <3>7, <3>8, <3>9
  <2> QED BY <2>1, <2>2
<1>7. /\ d.src = b.src /\ d.dst = b.dst /\ d.id = b.id /\ d.aduLen = b.aduLen
      /\ d.content = b.content /\ d.custody = b.custody /\ d.custEid = b.custEid
      /\ d.size = b.size /\ d.ret = b.ret
  BY <1>1, <1>3 DEF Bundles
<1> HIDE DEF d
<1>8. AtSource(d, R)  BY <1>5, <1>6, <1>7 DEF AtSource, OfAdu
<1>9. FullyAcked(d) => d.acks[1] .. (d.acks[2] - 1) = AduBytes
  BY <1>8 DEF FullyAcked, AtSource, OfAdu, AduBytes
<1> QED BY <1>6, <1>8, <1>9 DEF d

----------------------------------------------------------------------------
(* Handlers at the source.                                                 *)

(* What a handler has handed to convergence layers.                        *)
LEMMA HandedIs ==
  ASSUME NEW a, NEW m \in Handed(a)
  PROVE  \E r \in Refs : \E k \in 1..Len(a.sent[r]) :
           m.bundle = a.sent[r][k] /\ m.to = Behind[OutgoingCla(a, a.sent[r][k].dst)]
BY DEF Handed

(* Nothing is handed over if nothing is sent.                              *)
LEMMA NothingHanded ==
  ASSUME NEW a, \A r \in Refs : a.sent[r] = <<>>
  PROVE  Handed(a) = {}
<1>1. \A r \in Refs : Len(a.sent[r]) = 0  OBVIOUS
<1> QED BY <1>1, HandedIs

(* Forward keeps the custodian's copies where they are, and hands over     *)
(* pieces for the destination.                                             *)
SourceForwards(f, a, R) ==
  /\ f \in AgentState /\ SameNode(f, a) /\ f.seq = a.seq
  /\ f.store = a.store /\ SourceHolds(f, R)
  /\ \A m \in Handed(f) : MessageInv(m, R)

LEMMA ForwardAtSource ==
  ASSUME Direct, NEW n \in Nodes, NEW a \in AgentState, a.route = RouteOf[n],
         NEW R, NEW P \in SUBSET Refs,
         \A r \in Referred(a) \cup P : AtSource(a.heap[r], R),
         \A r \in Refs : a.sent[r] = <<>>,
         NEW f, f = Forward(a, P)
  PROVE  SourceForwards(f, a, R)
<1>1. \A r \in P : a.heap[r] \in Bundles  BY DEF AtSource, OfAdu
<1>2. /\ f \in AgentState /\ SameNode(f, a) /\ f.seq = a.seq
      /\ \A q \in Refs \ P : SameObject(f, a, q)
      /\ \A q \in P : CanSend(a, q) => SentOut(f, a, q)
      /\ \A q \in P : ~ CanSend(a, q) => KeptBack(f, a, q)
  BY <1>1, ForwardEffect
<1>3. ASSUME NEW q \in P
      PROVE  /\ AtSource(f.heap[q], R)
             /\ q \in f.store <=> q \in a.store
             /\ \A k \in 1..Len(f.sent[q]) :
                  AduPiece(f.sent[q][k]) /\ OutgoingCla(a, ReceiveEid) # NoCla
  <2>1. AtSource(a.heap[q], R) /\ a.heap[q].dst = ReceiveEid  BY DEF AtSource, OfAdu
  <2>2. /\ AtSource(Forwarded(a.heap[q]), R) /\ AtSource(Contraindicated(a.heap[q]), R)
        /\ Forwarded(a.heap[q]).ret # {}
    BY <2>1, AtSourceForwarded
  <2>3. CASE CanSend(a, q)
    <3>1. f.sent[q] = Transmission(a.heap[q])  BY <1>2, <2>3 DEF SentOut
    <3>2. \A k \in 1..Len(f.sent[q]) : AduPiece(f.sent[q][k])
      BY <2>1, <3>1, AtSourceTransmitted
    <3> QED BY <1>2, <2>1, <2>2, <2>3, <3>2 DEF CanSend, SentOut
  <2>4. CASE ~ CanSend(a, q)
    <3>1. f.sent[q] = <<>>  BY <1>2, <2>4 DEF KeptBack
    <3> QED BY <1>2, <2>2, <2>4, <3>1 DEF KeptBack
  <2> QED BY <2>3, <2>4
<1>4. ASSUME NEW q \in Refs \ P
      PROVE  /\ f.sent[q] = <<>>
             /\ q \in f.store <=> q \in a.store
             /\ q \in Referred(f) => AtSource(f.heap[q], R)
  BY <1>2 DEF SameObject, Referred
<1>5. Referred(f) \subseteq Refs /\ a.store \subseteq Refs /\ f.store \subseteq Refs
  BY <1>2 DEF Referred, AgentState
<1>6. f.store = a.store  BY <1>3, <1>4, <1>5
<1>7. SourceHolds(f, R)  BY <1>3, <1>4, <1>5 DEF SourceHolds
<1>8. ASSUME NEW m \in Handed(f) PROVE MessageInv(m, R)
  <2>1. PICK q \in Refs : \E k \in 1..Len(f.sent[q]) :
          m.bundle = f.sent[q][k] /\ m.to = Behind[OutgoingCla(f, f.sent[q][k].dst)]
    BY HandedIs
  <2>2. PICK k \in 1..Len(f.sent[q]) :
          m.bundle = f.sent[q][k] /\ m.to = Behind[OutgoingCla(f, f.sent[q][k].dst)]
    BY <2>1
  <2>3. q \in P
    <3>1. CASE q \notin P
      <4>1. f.sent[q] = <<>>  BY <1>4, <3>1
      <4> QED BY <2>2, <4>1
    <3> QED BY <3>1
  <2>4. AduPiece(f.sent[q][k]) /\ OutgoingCla(a, ReceiveEid) # NoCla  BY <1>3, <2>3
  <2>5. f.route = RouteOf[n]  BY <1>2 DEF SameNode
  <2>6. m.to = Behind[RouteOf[n][ReceiveEid]] /\ RouteOf[n][ReceiveEid] # NoCla
    BY <2>2, <2>4, <2>5 DEF OutgoingCla, AduPiece, OfAdu
  <2>7. m.to = Destination  BY <2>6, Routed, Endpoints
  <2> QED BY <2>2, <2>4, <2>7 DEF MessageInv
<1> QED BY <1>2, <1>6, <1>7, <1>8 DEF SourceForwards

(* The ADU is sent once, and is in the store unless it has expired.        *)
Accepted(f, a, R, r, life, late) ==
  /\ f \in AgentState /\ SameNode(f, a) /\ f.seq = 1
  /\ SourceHolds(f, R)
  /\ \A m \in Handed(f) : MessageInv(m, R)
  /\ r \in f.store <=> ~ (late /\ life = "finite")

LEMMA SendAtSource ==
  ASSUME Direct, NEW a \in AgentState, Configured(Source, a), a.seq = 0, Referred(a) = {},
         \A x \in Refs : a.sent[x] = <<>>,
         NEW R, NEW r \in Refs, NEW life \in Lifetimes, NEW late \in BOOLEAN,
         NEW f, f = Send(a, r, Adu(life), late)
  PROVE  Accepted(f, a, R, r, life, late)
<1> DEFINE m == Adu(life)
           b == NewBundle(a, m)
           n == [a EXCEPT !.seq = @ + 1]
           s == Store(n, r, b, late)
<1>1. m \in SendArguments
  BY Endpoints, NetworkAssumption DEF Adu, SendArguments, Contents
<1>2. b \in Bundles  BY <1>1, NewBundleTyped
<1>3. AtSource(b, R)
  <2>1. a.eid = AgentEid[Source]  BY DEF Configured
  <2> QED BY <1>2, <2>1 DEF AtSource, OfAdu, NewBundle, Adu
<1>4. b.life = life  BY DEF NewBundle, Adu
<1>5. f = Forward(s, {r})
  <2>1. SendEid \in LocalEids(Source) /\ SendEid \in Eids  BY Endpoints DEF LocalEids
  <2>2. IsNodeMember(a, SendEid)  BY <2>1 DEF IsNodeMember, Configured
  <2> QED BY <2>2 DEF Send, Adu
<1>6. /\ n \in AgentState /\ SameNode(n, a) /\ n.seq = 1
      /\ n.heap = a.heap /\ n.store = a.store /\ n.retrans = a.retrans /\ n.sent = a.sent
  BY DEF AgentState, SameNode
<1> HIDE DEF m, b, n
<1>7. /\ s \in AgentState /\ SameNode(s, n)
      /\ s.seq = n.seq /\ s.sent = n.sent
      /\ s.retrans = n.retrans
      /\ s.heap[r] = b
      /\ late /\ b.life = "finite" => s.store = n.store
      /\ ~ (late /\ b.life = "finite") => s.store = n.store \cup {r}
  BY <1>2, <1>6, StoreFields
<1> HIDE DEF s
<1>8. /\ a.store = {} /\ a.retrans = {}  BY DEF Referred
<1>9. /\ s.route = RouteOf[Source] /\ Source \in Nodes
      /\ \A x \in Refs : s.sent[x] = <<>>
      /\ {r} \in SUBSET Refs
      /\ \A x \in Referred(s) \cup {r} : AtSource(s.heap[x], R)
      /\ r \in s.store <=> ~ (late /\ life = "finite")
  BY <1>3, <1>4, <1>6, <1>7, <1>8, Endpoints DEF SameNode, Configured, Referred
<1>10. /\ f \in AgentState /\ SameNode(f, s) /\ f.seq = s.seq
       /\ f.store = s.store /\ SourceHolds(f, R)
       /\ \A x \in Handed(f) : MessageInv(x, R)
  BY <1>5, <1>7, <1>9, ForwardAtSource DEF SourceForwards
<1>11. SameNode(f, a) /\ f.seq = 1  BY <1>6, <1>7, <1>10 DEF SameNode
<1> QED BY <1>9, <1>10, <1>11 DEF Accepted

(* A custody signal at the source changes nothing but acknowledgements,    *)
(* and releases the ADU only when the destination has got all of it.       *)
LEMMA SignalAtSource ==
  ASSUME Direct, NEW a, AgentInv(a), Configured(Source, a), NEW R, SourceHolds(a, R),
         \A x \in Refs : a.sent[x] = <<>>,
         NEW b, SignalBundle(b, R), IsReceived(b),
         NEW r \in Free(a), NEW late \in BOOLEAN,
         NEW r2 \in Free(a), r # r2, NEW late2 \in BOOLEAN,
         NEW f \in ProcessBundle(a, b, r, late, r2, late2)
  PROVE  /\ SameNode(f, a) /\ f.seq = a.seq /\ f.sent = a.sent
         /\ SourceHolds(f, R)
         /\ f.store \subseteq a.store
         /\ f.store # a.store => AduBytes \subseteq R
<1> DEFINE c == [b EXCEPT !.ret = @ \cup {DP}]
           t == Store(a, r, c, late)
<1>1. b \in Bundles /\ b.ret = {}  BY DEF SignalBundle, IsReceived
<1>2. /\ c \in Bundles /\ c.src = AgentEid[Destination] /\ c.dst = AgentEid[Source]
      /\ c.content = b.content /\ ~ c.custody
  BY <1>1 DEF Bundles, RetentionConstraints, SignalBundle
<1>3. a \in AgentState  BY DEF AgentInv
<1>4. r \in Refs /\ r \notin a.store /\ r \notin a.retrans  BY FreeIsUnused
<1>5. IsNodeMember(a, b.dst)
  <2>1. AgentEid[Source] \in LocalEids(Source) /\ AgentEid[Source] \in Eids
    BY Endpoints DEF LocalEids
  <2> QED BY <2>1 DEF IsNodeMember, Configured, SignalBundle
<1>6. f \in Deliver(t, r, r2, late2)  BY <1>5 DEF ProcessBundle
<1> HIDE DEF c
<1>7. /\ t \in AgentState /\ SameNode(t, a)
      /\ t.seq = a.seq /\ t.sent = a.sent
      /\ t.retrans = a.retrans
      /\ t.heap[r] = c
      /\ \A q \in Refs \ {r} : SameObject(t, a, q)
      /\ late /\ c.life = "finite" => t.store = a.store
      /\ ~ (late /\ c.life = "finite") => t.store = a.store \cup {r}
  BY <1>2, <1>3, <1>4, StoreFields
<1> HIDE DEF t
<1>8. /\ t.eid = AgentEid[Source] /\ t.reg[c.dst] = "active"
  <2>1. AgentEid[Source] \in LocalEids(Source) /\ AgentEid[Source] \in Eids
    BY Endpoints DEF LocalEids
  <2> QED BY <1>2, <1>7, <2>1 DEF Configured, SameNode
<1>9. PICK d \in AdminRecord(t, c.content) :
        f = IF Remove(d, {r}).heap[r].custody
            THEN SendCustodySignal(Remove(d, {r}), r2, Remove(d, {r}).heap[r], late2)
            ELSE Remove(d, {r})
  BY <1>2, <1>6, <1>7, <1>8 DEF Deliver, EnqueueForDeliveryToApplication
<1>10. \A q \in Referred(a) : q \in Refs /\ q # r /\ AtSource(t.heap[q], R)
  BY <1>3, <1>4, <1>7 DEF AgentState, Referred, SameObject, SourceHolds
<1> DEFINE Merged ==
      /\ d \in AgentState /\ SameNode(d, t) /\ d.seq = t.seq /\ d.sent = t.sent
      /\ d.heap[r] = c
      /\ d.store \subseteq t.store /\ d.retrans \subseteq t.retrans
      /\ \A q \in Referred(a) : AtSource(d.heap[q], R)
      /\ t.store \ {r} = d.store \ {r} \/ AduBytes \subseteq R
<1>11. Merged
  <2>1. CASE d = t  BY <1>7, <1>10, <2>1 DEF SameNode
  <2>2. ASSUME NEW s \in GetBundle(t, c.content.src, c.content.id),
               d = Acknowledge(t, s, c.content)
        PROVE  Merged
    <3>1. s \in t.store /\ t.heap[s].src = SendEid
      BY <1>2 DEF GetBundle, First, GetBundles, SignalBundle, SignalContent
    <3>2. s # r /\ s \in Referred(a) /\ s \in Refs
      BY <1>2, <1>7, <3>1, Endpoints DEF Referred, AgentState
    <3>3. AtSource(t.heap[s], R) /\ t.heap[s] \in Bundles
      BY <1>10, <3>2 DEF AtSource, OfAdu
    <3>4. SignalContent(c.content, R) /\ c.content \in CustodySignals
      BY <1>2 DEF SignalBundle, SignalContent
    <3>5. /\ d \in AgentState /\ SameNode(d, t) /\ d.seq = t.seq /\ d.sent = t.sent
          /\ Acked(t.heap[s], c.content) \in Bundles
          /\ d.heap[s] = Acked(t.heap[s], c.content)
          /\ \A q \in Refs \ {s} : SameObject(d, t, q)
          /\ d.store \subseteq t.store /\ d.retrans \subseteq t.retrans
          /\ s \in t.store \ d.store => FullyAcked(d.heap[s])
      BY <1>7, <2>2, <3>2, <3>3, <3>4, AcknowledgeEffect
    <3>6. /\ AtSource(d.heap[s], R)
          /\ FullyAcked(d.heap[s]) => AduBytes \subseteq R
      BY <3>3, <3>4, <3>5, AtSourceAcked
    <3>7. \A q \in Referred(a) : AtSource(d.heap[q], R)
      BY <1>10, <3>5, <3>6 DEF SameObject
    <3>8. t.store \ {r} = d.store \ {r} \/ AduBytes \subseteq R
      <4>1. t.store \subseteq Refs /\ d.store \subseteq Refs  BY <1>7, <3>5 DEF AgentState
      <4>2. \A q \in Refs \ {s} : q \in d.store <=> q \in t.store  BY <3>5 DEF SameObject
      <4> QED BY <3>5, <3>6, <4>1, <4>2
    <3>9. d.heap[r] = c  BY <1>4, <1>7, <3>2, <3>5 DEF SameObject
    <3> QED BY <3>5, <3>7, <3>8, <3>9
  <2> QED BY <1>9, <2>1, <2>2 DEF AdminRecord
<1> DEFINE g == Remove(d, {r})
<1>12. /\ g \in AgentState /\ SameNode(g, d) /\ g.seq = d.seq /\ g.heap = d.heap
       /\ g.store = d.store \ {r} /\ g.retrans = d.retrans \ {r} /\ g.sent = d.sent
  BY <1>4, <1>11, RemoveEffect
<1>13. f = g  BY <1>2, <1>9, <1>11, <1>12
<1> HIDE DEF g
<1>14. g.store \subseteq a.store /\ g.retrans \subseteq a.retrans /\ t.store \ {r} = a.store
  BY <1>4, <1>7, <1>11, <1>12
<1>15. SourceHolds(g, R)  BY <1>11, <1>12, <1>14 DEF SourceHolds, Referred
<1>16. g.store # a.store => AduBytes \subseteq R  BY <1>11, <1>12, <1>14
<1>17. SameNode(g, a) /\ g.seq = a.seq /\ g.sent = a.sent
  BY <1>7, <1>11, <1>12 DEF SameNode
<1> QED BY <1>13, <1>14, <1>15, <1>16, <1>17

----------------------------------------------------------------------------
(* Handlers at the destination.                                            *)

(* Forward sends custody signals to the custodian, and keeps those that it *)
(* cannot send.                                                            *)
DestinationForwards(f, a, R) ==
  /\ f \in AgentState /\ SameNode(f, a) /\ f.seq = a.seq
  /\ DestinationHolds(f, R)
  /\ \A m \in Handed(f) : MessageInv(m, R)

LEMMA ForwardAtDestination ==
  ASSUME Direct, NEW n \in Nodes, NEW a \in AgentState, a.route = RouteOf[n],
         NEW R, NEW P \in SUBSET Refs,
         \A r \in Referred(a) \ P : AtDestination(a.heap[r], R) \/ WaitingSignal(a.heap[r], R),
         \A r \in P : SignalBundle(a.heap[r], R) /\ a.heap[r].ret \subseteq {DP, FP},
         \A r \in Refs : a.sent[r] = <<>>,
         NEW f, f = Forward(a, P)
  PROVE  DestinationForwards(f, a, R)
<1>1. \A r \in P : a.heap[r] \in Bundles  BY DEF SignalBundle
<1>2. /\ f \in AgentState /\ SameNode(f, a) /\ f.seq = a.seq
      /\ \A q \in Refs \ P : SameObject(f, a, q)
      /\ \A q \in P : CanSend(a, q) => SentOut(f, a, q)
      /\ \A q \in P : ~ CanSend(a, q) => KeptBack(f, a, q)
  BY <1>1, ForwardEffect
<1>3. ASSUME NEW q \in P
      PROVE  /\ q \in Referred(f) => WaitingSignal(f.heap[q], R)
             /\ \A k \in 1..Len(f.sent[q]) :
                  /\ SignalBundle(f.sent[q][k], R) /\ IsReceived(f.sent[q][k])
                  /\ OutgoingCla(a, AgentEid[Source]) # NoCla
  <2>1. /\ SignalBundle(a.heap[q], R) /\ a.heap[q].ret \subseteq {DP, FP}
        /\ a.heap[q].dst = AgentEid[Source]
    BY DEF SignalBundle
  <2>2. /\ Forwarded(a.heap[q]).ret = {}
        /\ WaitingSignal(Contraindicated(a.heap[q]), R)
        /\ \A k \in 1..Len(Transmission(a.heap[q])) :
             /\ SignalBundle(Transmission(a.heap[q])[k], R)
             /\ IsReceived(Transmission(a.heap[q])[k])
    BY <2>1, SignalForwarded
  <2>3. CASE CanSend(a, q)
    <3>1. f.sent[q] = Transmission(a.heap[q]) /\ q \notin Referred(f)
      BY <1>2, <2>2, <2>3 DEF SentOut, Referred
    <3> QED BY <2>1, <2>2, <2>3, <3>1 DEF CanSend
  <2>4. CASE ~ CanSend(a, q)
    <3>1. f.sent[q] = <<>>  BY <1>2, <2>4 DEF KeptBack
    <3> QED BY <1>2, <2>2, <2>4, <3>1 DEF KeptBack
  <2> QED BY <2>3, <2>4
<1>4. ASSUME NEW q \in Refs \ P
      PROVE  /\ f.sent[q] = <<>>
             /\ q \in Referred(f) =>
                  AtDestination(f.heap[q], R) \/ WaitingSignal(f.heap[q], R)
  BY <1>2 DEF SameObject, Referred
<1>5. Referred(f) \subseteq Refs  BY <1>2 DEF Referred, AgentState
<1>6. DestinationHolds(f, R)  BY <1>3, <1>4, <1>5 DEF DestinationHolds
<1>7. ASSUME NEW m \in Handed(f) PROVE MessageInv(m, R)
  <2>1. PICK q \in Refs : \E k \in 1..Len(f.sent[q]) :
          m.bundle = f.sent[q][k] /\ m.to = Behind[OutgoingCla(f, f.sent[q][k].dst)]
    BY HandedIs
  <2>2. PICK k \in 1..Len(f.sent[q]) :
          m.bundle = f.sent[q][k] /\ m.to = Behind[OutgoingCla(f, f.sent[q][k].dst)]
    BY <2>1
  <2>3. q \in P
    <3>1. CASE q \notin P
      <4>1. f.sent[q] = <<>>  BY <1>4, <3>1
      <4> QED BY <2>2, <4>1
    <3> QED BY <3>1
  <2>4. /\ SignalBundle(f.sent[q][k], R) /\ IsReceived(f.sent[q][k])
        /\ OutgoingCla(a, AgentEid[Source]) # NoCla
    BY <1>3, <2>3
  <2>5. f.route = RouteOf[n]  BY <1>2 DEF SameNode
  <2>6. m.to = Behind[RouteOf[n][AgentEid[Source]]] /\ RouteOf[n][AgentEid[Source]] # NoCla
    BY <2>2, <2>4, <2>5 DEF OutgoingCla, SignalBundle
  <2>7. m.to = Source  BY <2>6, Routed, Endpoints
  <2> QED BY <2>2, <2>4, <2>7 DEF MessageInv
<1> QED BY <1>2, <1>6, <1>7 DEF DestinationForwards

(* The custody signal for a piece names bytes that the piece covers.       *)
LEMMA SignalOfPiece ==
  ASSUME Direct, NEW d \in AgentState, Configured(Destination, d),
         NEW R, DestinationHolds(d, R), \A x \in Refs : d.sent[x] = <<>>,
         NEW b, AtDestination(b, R),
         NEW r \in Refs, r \notin Referred(d), NEW late \in BOOLEAN,
         NEW f, f = SendCustodySignal(d, r, b, late)
  PROVE  /\ f \in AgentState /\ SameNode(f, d) /\ f.seq = d.seq + 1
         /\ DestinationHolds(f, R)
         /\ \A m \in Handed(f) : MessageInv(m, R)
<1> DEFINE m == SignalOf(d, b)
           g == NewBundle(d, m)
           n == [d EXCEPT !.seq = @ + 1]
           s == Store(n, r, g, late)
<1>1. b \in Bundles  BY DEF AtDestination, OfAdu
<1>2. m \in SendArguments  BY <1>1, SignalTyped
<1>3. g \in Bundles  BY <1>2, NewBundleTyped
<1>4. SignalContent(CustodySignal(b), R)
  <2>1. /\ b.off \in Nat /\ b.size \in Nat /\ b.src = SendEid /\ b.id = 0 /\ SendEid \in Eids
        /\ b.off .. (b.off + b.size - 1) \subseteq R
    BY <1>1, Endpoints DEF Bundles, AtDestination, OfAdu, BytesOf, End
  <2>2. CASE b.frag  BY <2>1, <2>2 DEF CustodySignal, SignalContent, CustodySignals
  <2>3. CASE ~ b.frag  BY <2>1, <2>3 DEF CustodySignal, SignalContent, CustodySignals
  <2> QED BY <2>2, <2>3
<1>5. SignalBundle(g, R) /\ g.ret = {DP}
  <2>1. d.eid = AgentEid[Destination] /\ b.custEid = AgentEid[Source]
    BY DEF Configured, AtDestination, OfAdu
  <2> QED BY <1>3, <1>4, <2>1 DEF SignalBundle, NewBundle, SignalOf
<1>6. f = Forward(s, {r})
  <2>1. d.eid \in LocalEids(Destination) /\ d.eid \in Eids
    BY Endpoints DEF LocalEids, Configured
  <2>2. IsNodeMember(d, d.eid)  BY <2>1 DEF IsNodeMember, Configured
  <2> QED BY <2>2 DEF SendCustodySignal, Send, SignalOf
<1>7. /\ n \in AgentState /\ SameNode(n, d) /\ n.seq = d.seq + 1
      /\ n.heap = d.heap /\ n.store = d.store /\ n.retrans = d.retrans /\ n.sent = d.sent
  <2>1. d.seq + 1 \in Nat  BY DEF AgentState
  <2> QED BY <2>1 DEF AgentState, SameNode
<1> HIDE DEF m, g, n
<1>8. /\ s \in AgentState /\ SameNode(s, n)
      /\ s.seq = n.seq /\ s.sent = n.sent
      /\ s.retrans = n.retrans
      /\ s.heap[r] = g
      /\ \A q \in Refs \ {r} : SameObject(s, n, q)
  BY <1>3, <1>7, StoreFields
<1> HIDE DEF s
<1>9. \A q \in Referred(s) \ {r} :
        AtDestination(s.heap[q], R) \/ WaitingSignal(s.heap[q], R)
  <2> SUFFICES ASSUME NEW q \in Referred(s) \ {r}
               PROVE  AtDestination(s.heap[q], R) \/ WaitingSignal(s.heap[q], R)
    OBVIOUS
  <2>1. q \in Refs \ {r}  BY <1>8 DEF Referred, AgentState
  <2>2. q \in Referred(d) /\ s.heap[q] = d.heap[q]
    BY <1>7, <1>8, <2>1 DEF SameObject, Referred
  <2> QED BY <2>2 DEF DestinationHolds
<1>10. /\ s.route = RouteOf[Destination] /\ Destination \in Nodes
       /\ {r} \in SUBSET Refs
       /\ \A q \in {r} : SignalBundle(s.heap[q], R) /\ s.heap[q].ret \subseteq {DP, FP}
       /\ \A x \in Refs : s.sent[x] = <<>>
  BY <1>5, <1>7, <1>8, Endpoints DEF SameNode, Configured
<1>11. /\ f \in AgentState /\ SameNode(f, s) /\ f.seq = s.seq
       /\ DestinationHolds(f, R)
       /\ \A x \in Handed(f) : MessageInv(x, R)
  BY <1>6, <1>8, <1>9, <1>10, ForwardAtDestination DEF DestinationForwards
<1>12. SameNode(f, d) /\ f.seq = d.seq + 1  BY <1>7, <1>8, <1>11 DEF SameNode
<1> QED BY <1>11, <1>12

(* A fragment that grows within the ADU, over bytes that have come, counts *)
(* as whole exactly when it is.                                            *)
LEMMA ResizedAtDestination ==
  ASSUME NEW b, NEW R, AtDestination(b, R), b.frag,
         NEW size \in Nat, size > 0, b.off + size <= AduSize,
         b.off .. (b.off + size - 1) \subseteq R
  PROVE  AtDestination(Resized(b, size), R)
<1> DEFINE c == Resized(b, size)
<1>1. b \in Bundles /\ b.off \in Nat /\ b.aduLen = AduSize /\ AduSize \in Nat
  BY NetworkAssumption DEF AtDestination, OfAdu, Bundles
<1>2. /\ c \in Bundles /\ c.size = size /\ c.off = b.off /\ c.ret = b.ret
      /\ c.src = b.src /\ c.dst = b.dst /\ c.id = b.id /\ c.aduLen = b.aduLen
      /\ c.content = b.content /\ c.custody = b.custody /\ c.custEid = b.custEid
  BY <1>1 DEF Resized, Bundles
<1>3. ~ c.frag <=> size = AduSize
  <2>1. c.frag <=> size # AduSize  BY <1>1 DEF Resized, Bundles
  <2> QED BY <2>1
<1>4. ~ c.frag <=> c.off = 0 /\ c.size = AduSize
  <2>1. size = AduSize <=> b.off = 0 /\ size = AduSize  BY <1>1
  <2>2. c.size = size /\ c.off = b.off  BY <1>2
  <2> HIDE DEF c
  <2>3. c.off = 0 /\ c.size = AduSize <=> b.off = 0 /\ size = AduSize  BY <2>2
  <2> QED BY <1>3, <2>1, <2>3, Zenon
<1> HIDE DEF c
<1>5. End(c) = b.off + size /\ BytesOf(c) = b.off .. (End(c) - 1)
  BY <1>2 DEF BytesOf, End
<1>6. BytesOf(c) \subseteq R /\ End(c) <= AduSize  BY <1>1, <1>5
<1> QED BY <1>2, <1>4, <1>6 DEF AtDestination, OfAdu, c

(* Fragments that are joined where one ends and the other begins are, with *)
(* the bytes of both, a fragment that has come to the destination, or the  *)
(* whole ADU.                                                              *)
LEMMA GrownAtDestination ==
  ASSUME NEW b, NEW c, NEW R, AtDestination(b, R), AtDestination(c, R), End(b) = c.off
  PROVE  AtDestination(Resized(b, b.size + c.size), R)
<1> DEFINE n == b.size + c.size
<1>1. b \in Bundles /\ c \in Bundles
  BY DEF AtDestination, OfAdu
<1>2. /\ b.off \in Nat /\ b.size \in Nat /\ c.off \in Nat /\ c.size \in Nat /\ AduSize \in Nat
      /\ c.off = b.off + b.size /\ End(c) = c.off + c.size
  BY <1>1, NetworkAssumption DEF Bundles, End
<1>3. b.size > 0 /\ c.size > 0 /\ End(c) <= AduSize
  BY DEF AtDestination
<1>4. ~ b.frag => (b.off = 0 /\ b.size = AduSize)
  BY <1>1 DEF AtDestination, OfAdu, Bundles
<1>5. b.off .. (End(b) - 1) \subseteq R /\ c.off .. (End(c) - 1) \subseteq R
  BY DEF AtDestination, BytesOf
<1>6. ~ (b.off = 0 /\ b.size = AduSize)
  BY <1>2, <1>3
<1>7. b.frag
  BY <1>4, <1>6
<1>8. n \in Nat /\ n > 0 /\ b.off + n = End(c) /\ b.off + n <= AduSize
  BY <1>2, <1>3
<1> HIDE DEF n
<1>9. b.off .. (b.off + n - 1) \subseteq R
  BY <1>2, <1>5, <1>8
<1> QED BY <1>7, <1>8, <1>9, ResizedAtDestination DEF n

(* What joining the fragment r makes of the destination.                   *)
StillHolds(d, a, r, R) ==
  /\ d \in AgentState /\ SameNode(d, a) /\ d.seq = a.seq /\ d.sent = a.sent
  /\ AtDestination(d.heap[r], R) /\ DestinationHolds(d, R)
  /\ d.store \subseteq a.store /\ d.retrans \subseteq a.retrans

(* Coalesce joins what is adjacent, round after round.                     *)
LEMMA CoalesceAtDestination ==
  ASSUME Direct, NEW a \in AgentState, NEW R, DestinationHolds(a, R),
         NEW r \in Refs, AtDestination(a.heap[r], R),
         NEW d \in Coalesce(a, r)
  PROVE  StillHolds(d, a, r, R)
<1> DEFINE same == GetBundles(a, a.heap[r].src, a.heap[r].id)
           T == {x \in AgentState : /\ StillHolds(x, a, r, R)
                                    /\ \A q \in same : AtDestination(x.heap[q], R)}
<1>1. a.heap[r].src = SendEid /\ a.heap[r].id = 0
  BY DEF AtDestination, OfAdu
<1>2. ASSUME NEW q \in same
      PROVE  q \in Refs /\ AtDestination(a.heap[q], R)
  <2>1. q \in a.store /\ a.heap[q].src = SendEid
    BY <1>1 DEF GetBundles
  <2>2. AtDestination(a.heap[q], R)
    BY <2>1, Endpoints DEF DestinationHolds, Referred, WaitingSignal, SignalBundle
  <2> QED BY <2>1, <2>2 DEF AgentState
<1> HIDE DEF same
<1>3. a \in T
  BY <1>2 DEF StillHolds, SameNode
<1>4. ASSUME NEW x \in T, NEW y \in same \cup {r}, NEW z \in same \cup {r},
             End(x.heap[y]) = x.heap[z].off, NEW v, v = Grown(x, y, z)
      PROVE  v \in T
  <2>1. /\ x \in AgentState /\ StillHolds(x, a, r, R)
        /\ \A q \in same \cup {r} : q \in Refs /\ AtDestination(x.heap[q], R)
    BY <1>2 DEF StillHolds
  <2>2. /\ AtDestination(x.heap[y], R) /\ AtDestination(x.heap[z], R)
        /\ x.heap[y] \in Bundles /\ x.heap[z] \in Bundles /\ y \in Refs /\ z \in Refs
    BY <2>1 DEF AtDestination, OfAdu
  <2>3. /\ v \in AgentState /\ SameNode(v, x) /\ v.seq = x.seq /\ v.sent = x.sent
        /\ v.heap[y] = Resized(x.heap[y], x.heap[y].size + x.heap[z].size)
        /\ \A q \in Refs \ {y} : v.heap[q] = x.heap[q]
        /\ v.store = x.store \ {z} /\ v.retrans = x.retrans \ {z}
    BY <1>4, <2>1, <2>2, GrownEffect
  <2>4. AtDestination(v.heap[y], R)
    BY <1>4, <2>2, <2>3, GrownAtDestination
  <2> HIDE DEF T
  <2>5. \A q \in same \cup {r} : AtDestination(v.heap[q], R)
    BY <2>1, <2>3, <2>4
  <2>6. DestinationHolds(v, R)
    <3> SUFFICES ASSUME NEW q \in Referred(v)
                 PROVE  AtDestination(v.heap[q], R) \/ WaitingSignal(v.heap[q], R)
      BY DEF DestinationHolds
    <3>1. q \in Refs /\ q \in Referred(x)
      BY <2>3 DEF Referred, AgentState
    <3> QED BY <2>1, <2>3, <2>4, <3>1 DEF StillHolds, DestinationHolds
  <2>7. /\ SameNode(v, a) /\ v.seq = a.seq /\ v.sent = a.sent
        /\ v.store \subseteq a.store /\ v.retrans \subseteq a.retrans
    BY <2>1, <2>3 DEF StillHolds, SameNode
  <2> QED BY <2>3, <2>5, <2>6, <2>7 DEF T, StillHolds
<1>5. ASSUME NEW x \in T, NEW q \in same
      PROVE  Visit(x, r, q) \in T
  <2> DEFINE v == Visit(x, r, q)
  <2>1. \/ v = x
        \/ v = Grown(x, q, r) /\ x.heap[r].off = End(x.heap[q])
        \/ v = Grown(x, r, q) /\ End(x.heap[r]) = x.heap[q].off
    BY VisitCases
  <2> HIDE DEF T, v
  <2>2. v \in T
    BY <1>4, <2>1
  <2> QED BY <2>2 DEF v
<1>6. d \in T
  <2> HIDE DEF T
  <2> QED BY <1>3, <1>5, CoalesceLeads DEF same
<1> QED BY <1>6

(* A piece that arrives is joined with what is there, and signalled.       *)
LEMMA PieceAtDestination ==
  ASSUME Direct, NEW a, AgentInv(a), Configured(Destination, a),
         NEW R, DestinationHolds(a, R), \A x \in Refs : a.sent[x] = <<>>,
         NEW b, AduPiece(b), BytesOf(b) \subseteq R,
         NEW r \in Free(a), NEW late \in BOOLEAN,
         NEW r2 \in Free(a), r # r2, NEW late2 \in BOOLEAN,
         NEW f \in ProcessBundle(a, b, r, late, r2, late2)
  PROVE  /\ SameNode(f, a) /\ DestinationHolds(f, R)
         /\ \A m \in Handed(f) : MessageInv(m, R)
<1> DEFINE c == [b EXCEPT !.ret = @ \cup {DP}]
           t == Store(a, r, c, late)
<1>1. /\ b \in Bundles /\ b.ret = {} /\ b.size > 0 /\ b.off + b.size <= b.aduLen
      /\ b.frag <=> b.size < b.aduLen
      /\ b.size \in Nat /\ b.off \in Nat /\ b.aduLen = AduSize /\ AduSize \in Nat
  BY NetworkAssumption DEF AduPiece, OfAdu, IsReceived, Bundles
<1>2. /\ c \in Bundles /\ c.ret = {DP} /\ SameAdu(c, b) /\ c.off = b.off
      /\ c.frag = b.frag
  BY <1>1 DEF Bundles, RetentionConstraints, SameAdu
<1>3. AtDestination(c, R)
  <2>1. ~ b.frag <=> b.off = 0 /\ b.size = AduSize  BY <1>1
  <2>2. BytesOf(c) = BytesOf(b) /\ End(c) = b.off + b.size  BY <1>2 DEF BytesOf, End, SameAdu
  <2> QED BY <1>1, <1>2, <2>1, <2>2 DEF AtDestination, OfAdu, AduPiece, SameAdu
<1>4. a \in AgentState  BY DEF AgentInv
<1>5. /\ r \in Refs /\ r \notin a.store \cup a.retrans
      /\ r2 \in Refs /\ r2 \notin a.store \cup a.retrans
  BY FreeIsUnused
<1>6. b.dst = ReceiveEid /\ ReceiveEid \in LocalEids(Destination) /\ ReceiveEid \in Eids
  BY Endpoints DEF AduPiece, OfAdu, LocalEids
<1>7. IsNodeMember(a, b.dst)  BY <1>6 DEF IsNodeMember, Configured
<1>8. f \in Deliver(t, r, r2, late2)  BY <1>7 DEF ProcessBundle
<1> HIDE DEF c
<1>9. /\ t \in AgentState /\ SameNode(t, a)
      /\ t.seq = a.seq /\ t.sent = a.sent
      /\ t.retrans = a.retrans
      /\ t.heap[r] = c
      /\ \A q \in Refs \ {r} : SameObject(t, a, q)
      /\ late /\ c.life = "finite" => t.store = a.store
      /\ ~ (late /\ c.life = "finite") => t.store = a.store \cup {r}
  BY <1>2, <1>4, <1>5, StoreFields
<1> HIDE DEF t
<1>10. t.eid # c.dst /\ t.reg[c.dst] = "active" /\ c.dst = ReceiveEid
  BY <1>2, <1>6, <1>9, Endpoints DEF SameAdu, SameNode, Configured
<1>11. DestinationHolds(t, R)
  <2> SUFFICES ASSUME NEW q \in Referred(t)
               PROVE  AtDestination(t.heap[q], R) \/ WaitingSignal(t.heap[q], R)
    BY DEF DestinationHolds
  <2>1. q \in Refs  BY <1>9 DEF Referred, AgentState
  <2>2. CASE q = r  BY <1>3, <1>9, <2>2
  <2>3. CASE q # r
    <3>1. q \in Referred(a) /\ t.heap[q] = a.heap[q]
      BY <1>9, <2>1, <2>3 DEF SameObject, Referred
    <3> QED BY <3>1 DEF DestinationHolds
  <2> QED BY <2>2, <2>3
<1>12. PICK d \in EnqueueForDeliveryToApplication(t, r) :
         f = IF d.heap[r].custody THEN SendCustodySignal(d, r2, d.heap[r], late2) ELSE d
  BY <1>8, <1>9, <1>10 DEF Deliver
<1>13. /\ d \in AgentState /\ SameNode(d, t) /\ d.seq = t.seq /\ d.sent = t.sent
       /\ AtDestination(d.heap[r], R) /\ DestinationHolds(d, R)
       /\ d.store \subseteq t.store /\ d.retrans \subseteq t.retrans
  <2>1. CASE c.frag
    <3>1. d \in Coalesce(t, r)
      BY <1>9, <1>10, <1>12, <2>1 DEF EnqueueForDeliveryToApplication
    <3>2. AtDestination(t.heap[r], R) /\ t \in AgentState /\ r \in Refs
      BY <1>3, <1>5, <1>9
    <3>3. StillHolds(d, t, r, R)
      BY <1>11, <3>1, <3>2, CoalesceAtDestination
    <3> QED BY <3>3 DEF StillHolds
  <2>2. CASE ~ c.frag
    <3>1. d = t  BY <1>9, <1>10, <1>12, <2>2 DEF EnqueueForDeliveryToApplication
    <3> QED BY <1>3, <1>9, <1>11, <3>1 DEF SameNode
  <2> QED BY <2>1, <2>2
<1>14. f = SendCustodySignal(d, r2, d.heap[r], late2)
  BY <1>12, <1>13 DEF AtDestination, OfAdu
<1>15. /\ r2 \notin Referred(d) /\ Configured(Destination, d)
       /\ \A x \in Refs : d.sent[x] = <<>>
  <2>1. r2 \notin t.store  BY <1>5, <1>9
  <2> QED BY <1>5, <1>9, <1>13, <2>1 DEF Referred, Configured, SameNode
<1>16. /\ f \in AgentState /\ SameNode(f, d) /\ f.seq = d.seq + 1
       /\ DestinationHolds(f, R)
       /\ \A m \in Handed(f) : MessageInv(m, R)
  BY <1>5, <1>13, <1>14, <1>15, SignalOfPiece
<1> QED BY <1>9, <1>13, <1>16 DEF SameNode

----------------------------------------------------------------------------
(* One step of one node.                                                   *)

(* More bytes at the destination invalidate nothing.                       *)
LEMMA MoreReached ==
  ASSUME NEW R, NEW S, R \subseteq S
  PROVE  /\ \A m : MessageInv(m, R) => MessageInv(m, S)
         /\ \A n, a : Holds(n, a, R) => Holds(n, a, S)
<1>1. \A b : AtSource(b, R) => AtSource(b, S)  BY DEF AtSource
<1>2. \A b : AtDestination(b, R) => AtDestination(b, S)  BY DEF AtDestination
<1>3. \A b : SignalBundle(b, R) => SignalBundle(b, S)
  BY DEF SignalBundle, SignalContent
<1>4. \A m : MessageInv(m, R) => MessageInv(m, S)  BY <1>3 DEF MessageInv
<1>5. \A a : SourceHolds(a, R) => SourceHolds(a, S)  BY <1>1 DEF SourceHolds
<1>6. \A a : DestinationHolds(a, R) => DestinationHolds(a, S)
  BY <1>2, <1>3 DEF DestinationHolds, WaitingSignal
<1> QED BY <1>4, <1>5, <1>6 DEF Holds

(* Nodes see of each other what they exchange: the queue of what was sent  *)
(* is emptied, and nothing that is referred to is forgotten.               *)
LEMMA Settled ==
  ASSUME NEW n, NEW R, NEW f, AgentInv(f), Configured(n, f), Holds(n, f, R),
         NEW g, g = Collect(Quiet(f))
  PROVE  /\ NodeInv(n, g, R)
         /\ g.seq = f.seq /\ g.store = f.store /\ Referred(g) = Referred(f)
         /\ \A q \in Referred(f) : g.heap[q] = f.heap[q]
<1> DEFINE s == Quiet(f)
<1>1. f \in AgentState  BY DEF AgentInv
<1>2. /\ s \in AgentState /\ SameNode(s, f) /\ s.seq = f.seq /\ s.heap = f.heap
      /\ s.store = f.store /\ s.retrans = f.retrans
      /\ \A r \in Refs : s.sent[r] = <<>>
  BY <1>1, QuietEffect
<1>3. AgentInv(s)  BY QuietInv
<1> HIDE DEF s
<1>4. g = Collect(s)  BY DEF s
<1>5. /\ SameNode(g, s) /\ g.seq = s.seq /\ g.store = s.store
      /\ g.retrans = s.retrans /\ g.sent = s.sent
      /\ \A r \in s.store \cup s.retrans : g.heap[r] = s.heap[r]
  BY <1>2, <1>4, CollectEffect
<1>6. AgentInv(g)  BY <1>3, <1>4, CollectInv
<1>7. Referred(g) = Referred(f)  BY <1>2, <1>5 DEF Referred
<1>8. \A q \in Referred(f) : g.heap[q] = f.heap[q]  BY <1>2, <1>5 DEF Referred
<1>9. Holds(n, g, R)  BY <1>7, <1>8 DEF Holds, SourceHolds, DestinationHolds
<1>10. Configured(n, g)  BY <1>2, <1>5 DEF Configured, SameNode
<1> QED BY <1>2, <1>5, <1>6, <1>7, <1>8, <1>9, <1>10 DEF NodeInv

(* What a step of node n that ends in f changes of the nodes.              *)
Moves(n, f) ==
  /\ node'[n].seq = f.seq /\ node'[n].store = f.store
  /\ \A q \in Referred(f) : node'[n].heap[q] = f.heap[q]
  /\ \A k \in Nodes \ {n} : node'[k] = node[k]

(* Such a step is not one that makes or needs the ADU before it is sent.   *)
StaysIdle(n, f, R) ==
  /\ n = Source /\ f.seq = 0 => node[Source].seq = 0
  /\ (n = Source => f.seq = 0) /\ node[Source].seq = 0 =>
       Referred(f) = {} /\ Handed(f) = {} /\ R = {}

(* A step at one node preserves the invariant if the node does.            *)
LEMMA StepInv ==
  ASSUME NetInv(node, net, reached), NEW n \in Nodes, NEW f, NEW used, NEW R,
         Step(n, f, used), Outcome(n, f, R), StaysIdle(n, f, R),
         reached \subseteq R, R \subseteq AduBytes
  PROVE  NetInv(node', net', R) /\ Moves(n, f)
<1> DEFINE g == Collect(Quiet(f))
<1>1. /\ node' = [node EXCEPT ![n] = g] /\ net' = (net \ used) \cup Handed(f)
      /\ node = [k \in Nodes |-> node[k]]
  BY DEF Step, NetInv
<1>2. /\ NodeInv(n, g, R)
      /\ g.seq = f.seq /\ g.store = f.store /\ Referred(g) = Referred(f)
      /\ \A q \in Referred(f) : g.heap[q] = f.heap[q]
  <2>1. AgentInv(f) /\ Configured(n, f) /\ Holds(n, f, R)  BY DEF Outcome
  <2> QED BY <2>1, Settled
<1> HIDE DEF g
<1>3. /\ node' = [k \in Nodes |-> node'[k]] /\ node'[n] = g
      /\ \A k \in Nodes \ {n} : node'[k] = node[k]
  BY <1>1
<1>4. ASSUME NEW k \in Nodes PROVE NodeInv(k, node'[k], R)
  <2>1. CASE k = n  BY <1>2, <1>3, <2>1
  <2>2. CASE k # n
    <3>1. NodeInv(k, node[k], reached) /\ node'[k] = node[k]  BY <1>3, <2>2 DEF NetInv
    <3> QED BY <3>1, MoreReached DEF NodeInv
  <2> QED BY <2>1, <2>2
<1>5. ASSUME NEW m \in net' PROVE MessageInv(m, R)
  <2>1. CASE m \in Handed(f)  BY <2>1 DEF Outcome
  <2>2. CASE m \in net
    <3>1. MessageInv(m, reached)  BY <2>2 DEF NetInv
    <3> QED BY <3>1, MoreReached
  <2> QED BY <1>1, <2>1, <2>2
<1>6. ASSUME node'[Source].seq = 0 PROVE Idle(node', net', R)
  <2>1. Source \in Nodes  BY NetworkAssumption
  <2>2. node[Source].seq = 0 /\ (n = Source => f.seq = 0)
    <3>1. CASE n = Source  BY <1>2, <1>3, <1>6, <3>1 DEF StaysIdle
    <3>2. CASE n # Source  BY <1>3, <1>6, <2>1, <3>2
    <3> QED BY <3>1, <3>2
  <2>3. Referred(f) = {} /\ Handed(f) = {} /\ R = {}  BY <2>2 DEF StaysIdle
  <2>4. net = {} /\ \A k \in Nodes : Referred(node[k]) = {}  BY <2>2 DEF NetInv, Idle
  <2>5. \A k \in Nodes : Referred(node'[k]) = {}  BY <1>2, <1>3, <2>3, <2>4
  <2> QED BY <1>1, <2>3, <2>4, <2>5 DEF Idle
<1>7. NetInv(node', net', R)  BY <1>3, <1>4, <1>5, <1>6 DEF NetInv
<1>8. Moves(n, f)  BY <1>2, <1>3 DEF Moves
<1> QED BY <1>7, <1>8

(* Before the ADU is sent every node is empty; afterwards there is nothing *)
(* to show.                                                                *)
LEMMA Idling ==
  ASSUME NetInv(node, net, reached), NEW n \in Nodes, NEW f, f.seq = node[n].seq,
         Referred(node[n]) = {} => Referred(f) = {} /\ Handed(f) = {}
  PROVE  StaysIdle(n, f, reached)
<1>1. node[Source].seq = 0 => Referred(node[n]) = {} /\ reached = {}
  BY DEF NetInv, Idle
<1> QED BY <1>1 DEF StaysIdle

(* Custody of the ADU at the source.                                       *)
CustodyOf(a, late) ==
  IF a.seq = 0 THEN "none"
  ELSE IF late THEN "expired"
  ELSE IF a.store # {} THEN "held" ELSE "released"

(* Where custody is, before and after a step.                              *)
LEMMA CustodyIs ==
  ASSUME NetInv(node, net, reached), NetInv(node', net', reached')
  PROVE  /\ Custody = CustodyOf(node[Source], expired)
         /\ Custody' = CustodyOf(node'[Source], expired')
<1>1. Source \in Nodes  BY NetworkAssumption
<1>2. ASSUME NEW a, NEW R, SourceHolds(a, R)
      PROVE  {r \in a.store : IsAdu(a.heap[r])} = a.store
  BY <1>2 DEF SourceHolds, Referred, AtSource, OfAdu, IsAdu
<1>3. SourceHolds(node[Source], reached) /\ SourceHolds(node'[Source], reached')
  BY <1>1 DEF NetInv, NodeInv, Holds
<1>4. {r \in node[Source].store : IsAdu(node[Source].heap[r])} = node[Source].store
  BY <1>2, <1>3
<1>5. {r \in node'[Source].store : IsAdu(node'[Source].heap[r])} = node'[Source].store
  BY <1>2, <1>3
<1> QED BY <1>4, <1>5 DEF Custody, Copies, CustodyOf

(* What every step keeps: the invariant, and the promise of custody        *)
(* transfer.                                                               *)
Preserved ==
  /\ NetInv(node', net', reached')
  /\ Transfer!Next \/ UNCHANGED <<Custody, reached, taken>>

(* A step that leaves the custodian's store as it is.                      *)
LEMMA Unnoticed ==
  ASSUME NetInv(node, net, reached), NEW n \in Nodes, NEW f, NEW used,
         Step(n, f, used), Outcome(n, f, reached),
         f.seq = node[n].seq, n = Source => f.store = node[n].store,
         Referred(node[n]) = {} => Referred(f) = {} /\ Handed(f) = {},
         expired' <=> expired, UNCHANGED <<reached, taken>>
  PROVE  Preserved
<1>1. StaysIdle(n, f, reached)  BY Idling
<1>2. reached \subseteq AduBytes  BY DEF NetInv
<1>3. NetInv(node', net', reached) /\ Moves(n, f)  BY <1>1, <1>2, StepInv
<1>4. NetInv(node', net', reached')  BY <1>3
<1>5. Source \in Nodes  BY NetworkAssumption
<1>6. node'[Source].seq = node[Source].seq /\ node'[Source].store = node[Source].store
  <2>1. CASE n = Source  BY <1>3, <2>1 DEF Moves
  <2>2. CASE n # Source  BY <1>3, <1>5, <2>2 DEF Moves
  <2> QED BY <2>1, <2>2
<1>7. CustodyOf(node'[Source], expired') = CustodyOf(node[Source], expired)
  BY <1>6 DEF CustodyOf
<1>8. UNCHANGED Custody  BY <1>4, <1>7, CustodyIs
<1> QED BY <1>4, <1>8 DEF Preserved

(* What a handler leaves alone stays configured.                           *)
LEMMA StaysConfigured ==
  ASSUME NEW n, NEW a, Configured(n, a), NEW f, SameNode(f, a)
  PROVE  Configured(n, f)
BY DEF Configured, SameNode

(* What holds of a node.                                                   *)
LEMMA NodeHolds ==
  ASSUME NetInv(node, net, reached), NEW n \in Nodes
  PROVE  /\ AgentInv(node[n]) /\ node[n] \in AgentState /\ Configured(n, node[n])
         /\ Holds(n, node[n], reached)
         /\ n = Source => SourceHolds(node[n], reached)
         /\ n = Destination => DestinationHolds(node[n], reached)
         /\ n \notin {Source, Destination} => Referred(node[n]) = {}
         /\ \A r \in Refs : node[n].sent[r] = <<>>
BY DEF NetInv, NodeInv, AgentInv, Holds

(* Removing a bundle sends nothing.                                        *)
LEMMA RemoveOutcome ==
  ASSUME NEW n, NEW a, NEW R, NodeInv(n, a, R), NEW r \in Refs,
         NEW f, f = Remove(a, {r})
  PROVE  /\ Outcome(n, f, R) /\ f.seq = a.seq /\ f.store \subseteq a.store
         /\ Handed(f) = {} /\ Referred(f) \subseteq Referred(a)
<1>1. /\ AgentInv(a) /\ a \in AgentState /\ Configured(n, a) /\ Holds(n, a, R)
      /\ \A q \in Refs : a.sent[q] = <<>>
  BY DEF NodeInv, AgentInv
<1>2. f = Remove(a, {r}) /\ {r} \in SUBSET Refs  OBVIOUS
<1>3. /\ f \in AgentState /\ SameNode(f, a) /\ f.seq = a.seq /\ f.heap = a.heap
      /\ f.store = a.store \ {r} /\ f.retrans = a.retrans \ {r} /\ f.sent = a.sent
  BY <1>1, <1>2, RemoveEffect
<1>4. AgentInv(f)  BY <1>1, <1>2, RemoveInv
<1>5. Handed(f) = {}  BY <1>1, <1>3, NothingHanded
<1>6. Referred(f) \subseteq Referred(a)  BY <1>3 DEF Referred
<1>7. Holds(n, f, R)
  BY <1>1, <1>3, <1>6 DEF Holds, SourceHolds, DestinationHolds
<1>8. Configured(n, f)  BY <1>1, <1>3, StaysConfigured
<1> QED BY <1>3, <1>4, <1>5, <1>6, <1>7, <1>8 DEF Outcome

(* Nothing to forward, nothing done.                                       *)
LEMMA ForwardNothing ==
  ASSUME NEW a \in AgentState, Referred(a) = {}, \A r \in Refs : a.sent[r] = <<>>,
         NEW P, P = {}, NEW f, f = Forward(a, P)
  PROVE  /\ f \in AgentState /\ SameNode(f, a) /\ f.seq = a.seq
         /\ Referred(f) = {} /\ Handed(f) = {}
<1>1. P \in SUBSET Refs /\ \A r \in P : a.heap[r] \in Bundles  OBVIOUS
<1>2. /\ f \in AgentState /\ SameNode(f, a) /\ f.seq = a.seq
      /\ \A q \in Refs \ P : SameObject(f, a, q)
  BY <1>1, ForwardEffect
<1>3. \A q \in Refs : f.sent[q] = <<>> /\ q \notin Referred(f)
  BY <1>2 DEF SameObject, Referred
<1>4. Referred(f) \subseteq Refs  BY <1>2 DEF Referred, AgentState
<1>5. Handed(f) = {}  BY <1>3, NothingHanded
<1> QED BY <1>2, <1>3, <1>4, <1>5

----------------------------------------------------------------------------
(* One lemma per action.                                                   *)

(* The application sends the ADU: the source takes custody of it, or finds *)
(* it expired already (Send).                                              *)
LEMMA AppSendStep ==
  ASSUME Direct, NetInv(node, net, reached), NEW life \in AduLife, NEW r \in Refs,
         NEW late \in Lateness(life), AppSend(life, r, late)
  PROVE  Preserved
<1> DEFINE a == node[Source]
           f == Send(a, r, Adu(life), late)
<1>1. Source \in Nodes /\ Source # Destination  BY NetworkAssumption
<1>2. /\ a.seq = 0 /\ r \in Free(a) /\ Step(Source, f, {})
      /\ expired' = (late /\ life = "finite") /\ UNCHANGED <<reached, taken>>
  BY DEF AppSend
<1>3. life \in Lifetimes /\ late \in BOOLEAN  BY NetworkAssumption DEF Lateness
<1>4. /\ AgentInv(a) /\ a \in AgentState /\ Configured(Source, a)
      /\ \A q \in Refs : a.sent[q] = <<>>
  BY <1>1, NodeHolds
<1>5. Referred(a) = {} /\ reached = {}  BY <1>1, <1>2 DEF NetInv, Idle
<1> HIDE DEF a, f
<1>6. f = Send(a, r, Adu(life), late)  BY DEF f
<1>7. /\ f \in AgentState /\ SameNode(f, a) /\ f.seq = 1 /\ SourceHolds(f, reached)
      /\ \A m \in Handed(f) : MessageInv(m, reached)
      /\ r \in f.store <=> ~ (late /\ life = "finite")
  <2>1. Accepted(f, a, reached, r, life, late)
    BY <1>2, <1>3, <1>4, <1>5, <1>6, SendAtSource
  <2> QED BY <2>1 DEF Accepted
<1>8. AgentInv(f)
  <2>1. Adu(life) \in SendArguments
    BY <1>3, Endpoints, NetworkAssumption DEF Adu, SendArguments, Contents
  <2> QED BY <1>2, <1>3, <1>4, <1>6, <2>1, SendInv
<1>9. Configured(Source, f)  BY <1>4, <1>7, StaysConfigured
<1>10. Outcome(Source, f, reached)  BY <1>1, <1>7, <1>8, <1>9 DEF Outcome, Holds
<1>11. StaysIdle(Source, f, reached)  BY <1>7 DEF StaysIdle
<1>12. NetInv(node', net', reached) /\ Moves(Source, f)
  BY <1>1, <1>2, <1>5, <1>10, <1>11, StepInv
<1>13. NetInv(node', net', reached')  BY <1>2, <1>12
<1>14. Custody = "none"
  <2>1. Custody = CustodyOf(a, expired)  BY <1>13, CustodyIs DEF a
  <2> QED BY <1>2, <2>1 DEF CustodyOf
<1>15. Custody' \in {"held", "expired"}
  <2>1. Custody' = CustodyOf(node'[Source], expired')  BY <1>13, CustodyIs
  <2>2. node'[Source].seq = 1 /\ node'[Source].store = f.store  BY <1>7, <1>12 DEF Moves
  <2>3. CASE expired'  BY <2>1, <2>2, <2>3 DEF CustodyOf
  <2>4. CASE ~ expired'
    <3>1. node'[Source].store # {}  BY <1>2, <1>7, <2>2, <2>4
    <3> QED BY <2>1, <2>2, <2>4, <3>1 DEF CustodyOf
  <2> QED BY <2>3, <2>4
<1>16. Transfer!Accept  BY <1>2, <1>14, <1>15 DEF Transfer!Accept
<1> QED BY <1>13, <1>16 DEF Preserved, Transfer!Next

(* The application receives the whole ADU (Receive).                       *)
LEMMA ReceiveStep ==
  ASSUME Direct, NetInv(node, net, reached), Receive
  PROVE  Preserved
<1> DEFINE a == node[Destination]
<1>1. Destination \in Nodes /\ Source \in Nodes /\ Source # Destination
  BY NetworkAssumption
<1>2. PICK r \in Receivable(a, ReceiveEid) :
        /\ Step(Destination, Remove(a, {r}), {})
        /\ taken' = taken \cup {a.heap[r].size}
        /\ UNCHANGED <<reached, expired>>
  BY DEF Receive
<1>3. r \in a.store /\ a.heap[r].dst = ReceiveEid /\ ~ a.heap[r].frag
  BY DEF Receivable, First
<1>4. /\ a \in AgentState /\ DestinationHolds(a, reached)
  BY <1>1, NodeHolds
<1>5. r \in Refs /\ r \in Referred(a)  BY <1>3, <1>4 DEF AgentState, Referred
<1>6. AtDestination(a.heap[r], reached)
  BY <1>3, <1>4, <1>5, Endpoints DEF DestinationHolds, WaitingSignal, SignalBundle
<1>7. a.heap[r].size = AduSize /\ AduBytes \subseteq reached
  <2>1. a.heap[r].off = 0 /\ a.heap[r].size = AduSize /\ BytesOf(a.heap[r]) \subseteq reached
    BY <1>3, <1>6 DEF AtDestination
  <2>2. AduSize \in Nat  BY NetworkAssumption
  <2> QED BY <2>1, <2>2 DEF BytesOf, End, AduBytes
<1> DEFINE f == Remove(a, {r})
<1>8. /\ Outcome(Destination, f, reached) /\ f.seq = a.seq
      /\ Handed(f) = {} /\ Referred(f) \subseteq Referred(a)
  <2>1. NodeInv(Destination, a, reached)  BY <1>1 DEF NetInv
  <2> QED BY <1>5, <2>1, RemoveOutcome
<1>9. Step(Destination, f, {})  BY <1>2
<1> HIDE DEF f
<1>10. StaysIdle(Destination, f, reached)  BY <1>1, <1>8, Idling
<1>11. reached \subseteq AduBytes  BY DEF NetInv
<1>12. NetInv(node', net', reached) /\ Moves(Destination, f)
  BY <1>1, <1>8, <1>9, <1>10, <1>11, StepInv
<1>13. NetInv(node', net', reached')  BY <1>2, <1>12
<1>14. node'[Source] = node[Source]  BY <1>1, <1>12 DEF Moves
<1>15. UNCHANGED Custody  BY <1>2, <1>13, <1>14, CustodyIs
<1>16. reached = AduBytes  BY <1>7, <1>11
<1>17. Transfer!Take
  BY <1>2, <1>7, <1>15, <1>16 DEF Transfer!Take, Transfer!Bytes, AduBytes
<1> QED BY <1>13, <1>17 DEF Preserved, Transfer!Next

(* A piece arrives at the destination (EnqueueForDeliveryToApplication,    *)
(* SendCustodySignal): more bytes have reached it.                         *)
LEMMA PieceStep ==
  ASSUME Direct, NetInv(node, net, reached), NEW m \in net, NEW r \in Refs, NEW r2 \in Refs,
         NEW late \in Lateness(m.bundle.life), NEW late2 \in Lateness(m.bundle.life),
         Arrive(m, r, late, r2, late2), m.to = Destination, AduPiece(m.bundle)
  PROVE  Preserved
<1> DEFINE a == node[Destination]
           b == m.bundle
           R == reached \cup BytesOf(b)
<1>1. Destination \in Nodes /\ Source \in Nodes /\ Source # Destination
  BY NetworkAssumption
<1>2. PICK f \in ProcessBundle(a, b, r, late, r2, late2) : Step(Destination, f, {m})
  BY DEF Arrive
<1>3. /\ r \in Free(a) /\ r2 \in Free(a) /\ r # r2
      /\ late \in BOOLEAN /\ late2 \in BOOLEAN
  BY DEF Arrive, Lateness
<1>4. /\ b \in Bundles /\ b.ret = {} /\ b.off \in Nat /\ b.size \in Nat
      /\ b.off + b.size <= AduSize /\ IsAdu(b)
  BY DEF AduPiece, OfAdu, IsReceived, IsAdu, Bundles
<1>5. reached' = R /\ UNCHANGED <<expired, taken>>  BY <1>4 DEF Arrive
<1>6. BytesOf(b) \subseteq AduBytes
  <2>1. AduSize \in Nat  BY NetworkAssumption
  <2> QED BY <1>4, <2>1 DEF BytesOf, End, AduBytes
<1>7. reached \subseteq R /\ BytesOf(b) \subseteq R /\ R \subseteq AduBytes
  BY <1>6 DEF NetInv
<1>8. /\ AgentInv(a) /\ Configured(Destination, a)
      /\ \A x \in Refs : a.sent[x] = <<>>
  BY <1>1, NodeHolds
<1>9. DestinationHolds(a, R)
  <2>1. Holds(Destination, a, reached)  BY <1>1, NodeHolds
  <2>2. Holds(Destination, a, R)  BY <1>7, <2>1, MoreReached
  <2> QED BY <2>2 DEF Holds
<1>10. AduPiece(b)  OBVIOUS
<1> HIDE DEF a, b, R
<1>11. /\ SameNode(f, a) /\ DestinationHolds(f, R)
       /\ \A x \in Handed(f) : MessageInv(x, R)
  BY <1>2, <1>3, <1>7, <1>8, <1>9, <1>10, PieceAtDestination
<1>12. AgentInv(f)  BY <1>2, <1>3, <1>4, <1>8, ProcessBundleInv
<1>13. Configured(Destination, f)  BY <1>8, <1>11, StaysConfigured
<1>14. Outcome(Destination, f, R)  BY <1>1, <1>11, <1>12, <1>13 DEF Outcome, Holds
<1>15. node[Source].seq # 0  BY DEF NetInv, Idle
<1>16. StaysIdle(Destination, f, R)  BY <1>1, <1>15 DEF StaysIdle
<1>17. NetInv(node', net', R) /\ Moves(Destination, f)
  BY <1>1, <1>2, <1>7, <1>14, <1>16, StepInv
<1>18. NetInv(node', net', reached')  BY <1>5, <1>17
<1>19. node'[Source] = node[Source]  BY <1>1, <1>17 DEF Moves
<1>20. Custody = CustodyOf(node[Source], expired) /\ UNCHANGED Custody
  BY <1>5, <1>18, <1>19, CustodyIs
<1>21. Custody # "none"  BY <1>15, <1>20 DEF CustodyOf
<1>22. Transfer!Reach
  BY <1>5, <1>7, <1>20, <1>21 DEF Transfer!Reach, Transfer!Bytes, AduBytes
<1> QED BY <1>18, <1>22 DEF Preserved, Transfer!Next

(* A custody signal arrives at the source (AdminRecord): the ADU is        *)
(* released, and then all of it has reached the destination, or it is not. *)
LEMMA SignalStep ==
  ASSUME Direct, NetInv(node, net, reached), NEW m \in net, NEW r \in Refs, NEW r2 \in Refs,
         NEW late \in Lateness(m.bundle.life), NEW late2 \in Lateness(m.bundle.life),
         Arrive(m, r, late, r2, late2),
         m.to = Source, SignalBundle(m.bundle, reached), IsReceived(m.bundle)
  PROVE  Preserved
<1> DEFINE a == node[Source]
           b == m.bundle
<1>1. Destination \in Nodes /\ Source \in Nodes /\ Source # Destination
  BY NetworkAssumption
<1>2. PICK f \in ProcessBundle(a, b, r, late, r2, late2) : Step(Source, f, {m})
  BY DEF Arrive
<1>3. /\ r \in Free(a) /\ r2 \in Free(a) /\ r # r2
      /\ late \in BOOLEAN /\ late2 \in BOOLEAN
  BY DEF Arrive, Lateness
<1>4. UNCHANGED <<reached, expired, taken>>  BY <1>1 DEF Arrive
<1>5. /\ AgentInv(a) /\ Configured(Source, a) /\ SourceHolds(a, reached)
      /\ \A x \in Refs : a.sent[x] = <<>>
  BY <1>1, NodeHolds
<1>6. SignalBundle(b, reached) /\ IsReceived(b)  OBVIOUS
<1>7. a.seq # 0  BY DEF NetInv, Idle
<1>8. b \in Bundles /\ b.ret = {}  BY DEF SignalBundle, IsReceived
<1> HIDE DEF a, b
<1>9. /\ SameNode(f, a) /\ f.seq = a.seq /\ f.sent = a.sent
      /\ SourceHolds(f, reached)
      /\ f.store \subseteq a.store
      /\ f.store # a.store => AduBytes \subseteq reached
  BY <1>2, <1>3, <1>5, <1>6, SignalAtSource
<1>10. AgentInv(f)  BY <1>2, <1>3, <1>5, <1>8, ProcessBundleInv
<1>11. Configured(Source, f)  BY <1>5, <1>9, StaysConfigured
<1>12. Handed(f) = {}  BY <1>5, <1>9, NothingHanded
<1>13. Outcome(Source, f, reached)
  BY <1>1, <1>9, <1>10, <1>11, <1>12 DEF Outcome, Holds
<1>14. StaysIdle(Source, f, reached)  BY <1>7, <1>9 DEF StaysIdle
<1>15. reached \subseteq AduBytes  BY DEF NetInv
<1>16. NetInv(node', net', reached) /\ Moves(Source, f)
  BY <1>1, <1>2, <1>13, <1>14, <1>15, StepInv
<1>17. NetInv(node', net', reached')  BY <1>4, <1>16
<1>18. node'[Source].seq = a.seq /\ node'[Source].store = f.store
  BY <1>9, <1>16 DEF Moves
<1>19. /\ Custody = CustodyOf(a, expired)
       /\ Custody' = CustodyOf(node'[Source], expired)
  BY <1>4, <1>17, CustodyIs DEF a
<1>20. Transfer!Next \/ UNCHANGED <<Custody, reached, taken>>
  <2>1. CASE expired
    <3>1. Custody = "expired" /\ Custody' = "expired"
      BY <1>7, <1>18, <1>19, <2>1 DEF CustodyOf
    <3> QED BY <1>4, <3>1
  <2>2. CASE f.store = a.store
    <3>1. Custody' = Custody  BY <1>18, <1>19, <2>2 DEF CustodyOf
    <3> QED BY <1>4, <3>1
  <2>3. CASE ~ expired /\ f.store # a.store
    <3>1. a.store # {} /\ reached = AduBytes  BY <1>9, <1>15, <2>3
    <3>2. Custody = "held"  BY <1>7, <1>19, <2>3, <3>1 DEF CustodyOf
    <3>3. Custody' \in {"held", "released"}
      BY <1>7, <1>18, <1>19, <2>3 DEF CustodyOf
    <3>4. CASE Custody' = "held"  BY <1>4, <3>2, <3>4
    <3>5. CASE Custody' = "released"
      <4>1. Transfer!Release
        BY <1>4, <3>1, <3>2, <3>5 DEF Transfer!Release, Transfer!Bytes, AduBytes
      <4> QED BY <4>1 DEF Transfer!Next
    <3> QED BY <3>3, <3>4, <3>5
  <2> QED BY <2>1, <2>2, <2>3
<1> QED BY <1>17, <1>20 DEF Preserved

(* Whatever arrives is one or the other.                                   *)
LEMMA ArriveStep ==
  ASSUME Direct, NetInv(node, net, reached), NEW m \in net, NEW r \in Refs, NEW r2 \in Refs,
         NEW late \in Lateness(m.bundle.life), NEW late2 \in Lateness(m.bundle.life),
         Arrive(m, r, late, r2, late2)
  PROVE  Preserved
<1>1. MessageInv(m, reached)  BY DEF NetInv
<1> QED BY <1>1, PieceStep, SignalStep DEF MessageInv

(* A bundle expires (Remove): the custodian's lifetime has ended, or       *)
(* custody is not touched.                                                 *)
LEMMA ExpireStep ==
  ASSUME Direct, NetInv(node, net, reached), NEW n \in Nodes, NEW r \in Refs, Expire(n, r)
  PROVE  Preserved
<1> DEFINE a == node[n]
           f == Remove(a, {r})
<1>1. Source \in Nodes /\ Source # Destination  BY NetworkAssumption
<1>2. /\ r \in a.expiry /\ Step(n, f, {})
      /\ expired' = (expired \/ (n = Source /\ IsAdu(a.heap[r])))
      /\ UNCHANGED <<reached, taken>>
  BY DEF Expire
<1>3. AgentInv(a)  BY NodeHolds
<1>4. r \in Referred(a)  BY <1>2, <1>3 DEF AgentInv, Owned, Referred
<1>5. /\ Outcome(n, f, reached) /\ f.seq = a.seq
      /\ Handed(f) = {} /\ Referred(f) \subseteq Referred(a)
  <2>1. NodeInv(n, a, reached)  BY DEF NetInv
  <2> QED BY <2>1, RemoveOutcome
<1> HIDE DEF f
<1>6. CASE n # Source
  <2>1. expired' <=> expired  BY <1>2, <1>6, Zenon
  <2> QED BY <1>2, <1>5, <1>6, <2>1, Unnoticed
<1>7. CASE n = Source
  <2>1. IsAdu(a.heap[r])
    <3>1. SourceHolds(a, reached)  BY <1>1, <1>7, NodeHolds
    <3> QED BY <1>4, <3>1 DEF SourceHolds, AtSource, OfAdu, IsAdu
  <2>2. expired' = TRUE  BY <1>2, <1>7, <2>1
  <2>3. a.seq # 0  BY <1>4, <1>7 DEF NetInv, Idle
  <2>4. StaysIdle(n, f, reached)  BY <1>5, <1>7, <2>3 DEF StaysIdle
  <2>5. reached \subseteq AduBytes  BY DEF NetInv
  <2>6. NetInv(node', net', reached) /\ Moves(n, f)
    BY <1>2, <1>5, <2>4, <2>5, StepInv
  <2>7. NetInv(node', net', reached')  BY <1>2, <2>6
  <2>8. node'[Source].seq = a.seq  BY <1>5, <1>7, <2>6 DEF Moves
  <2>9. /\ Custody = CustodyOf(a, expired)
        /\ Custody' = CustodyOf(node'[Source], expired')
    BY <1>7, <2>7, CustodyIs
  <2>10. Custody' = "expired"  BY <2>2, <2>3, <2>8, <2>9 DEF CustodyOf
  <2>11. a.store # {}
    <3>1. r \in a.store  BY <1>2, <1>3 DEF AgentInv, Owned
    <3> QED BY <3>1
  <2>12. Custody = "held" \/ Custody = "expired"  BY <2>3, <2>9, <2>11 DEF CustodyOf
  <2>13. CASE Custody = "held"
    <3>1. Transfer!Expire  BY <1>2, <2>10, <2>13 DEF Transfer!Expire
    <3> QED BY <2>7, <3>1 DEF Preserved, Transfer!Next
  <2>14. CASE Custody = "expired"  BY <1>2, <2>7, <2>10, <2>14 DEF Preserved
  <2> QED BY <2>12, <2>13, <2>14
<1> QED BY <1>6, <1>7

(* A retransmission (Forward): only the source has any, and its copy of    *)
(* the ADU stays where it is.                                              *)
LEMMA RetransmitStep ==
  ASSUME Direct, NetInv(node, net, reached), NEW n \in Nodes, NEW r \in Refs, Retransmit(n, r)
  PROVE  Preserved
<1> DEFINE a == node[n]
           d == [a EXCEPT !.retrans = @ \ {r}]
           f == Forward(d, {r})
<1>1. Source \in Nodes /\ Source # Destination  BY NetworkAssumption
<1>2. r \in a.retrans /\ Step(n, f, {}) /\ UNCHANGED <<reached, expired, taken>>
  BY DEF Retransmit
<1>3. /\ AgentInv(a) /\ a \in AgentState /\ Configured(n, a)
      /\ n = Source => SourceHolds(a, reached)
      /\ n = Destination => DestinationHolds(a, reached)
      /\ n \notin {Source, Destination} => Referred(a) = {}
      /\ \A x \in Refs : a.sent[x] = <<>>
  BY NodeHolds
<1>4. r \in Referred(a)  BY <1>2 DEF Referred
<1>5. n # Destination
  <2>1. a.heap[r].ret = {CA}  BY <1>2, <1>3 DEF AgentInv, Owned
  <2>2. DestinationHolds(a, reached) => a.heap[r].ret = {DP} \/ a.heap[r].ret = {FP}
    BY <1>4 DEF DestinationHolds, AtDestination, WaitingSignal
  <2> QED BY <1>3, <2>1, <2>2 DEF CA, DP, FP
<1>6. n = Source  BY <1>3, <1>4, <1>5
<1> HIDE DEF a
<1>7. /\ d \in AgentState /\ SameNode(d, a) /\ d.seq = a.seq /\ d.heap = a.heap
      /\ d.store = a.store /\ d.retrans = a.retrans \ {r} /\ d.sent = a.sent
  BY <1>3 DEF AgentState, SameNode
<1>8. AgentInv(f)  BY <1>2, <1>3, RetransmitInv
<1> HIDE DEF d, f
<1>9. f = Forward(d, {r}) /\ {r} \in SUBSET Refs  BY DEF f
<1>10. \A q \in Referred(d) \cup {r} : AtSource(d.heap[q], reached)
  BY <1>3, <1>4, <1>6, <1>7 DEF Referred, SourceHolds
<1>11. d.route = RouteOf[n] /\ \A x \in Refs : d.sent[x] = <<>>
  BY <1>3, <1>7 DEF Configured, SameNode
<1>12. /\ f \in AgentState /\ SameNode(f, d) /\ f.seq = d.seq
       /\ f.store = d.store /\ SourceHolds(f, reached)
       /\ \A m \in Handed(f) : MessageInv(m, reached)
  <2>1. SourceForwards(f, d, reached)
    BY <1>7, <1>9, <1>10, <1>11, ForwardAtSource
  <2> QED BY <2>1 DEF SourceForwards
<1>13. Configured(n, f)  BY <1>3, <1>7, <1>12, StaysConfigured
<1>14. Outcome(n, f, reached)
  BY <1>1, <1>6, <1>8, <1>12, <1>13 DEF Outcome, Holds
<1>15. /\ f.seq = node[n].seq /\ f.store = node[n].store
       /\ Referred(node[n]) # {}
  BY <1>4, <1>7, <1>12 DEF a
<1> QED BY <1>2, <1>14, <1>15, Unnoticed

(* A link comes up and the agent forwards what waits for it (ClaReady).    *)
LEMMA LinkUpStep ==
  ASSUME Direct, NetInv(node, net, reached), NEW n \in Nodes, NEW c \in Clas, LinkUp(n, c)
  PROVE  Preserved
<1> DEFINE a == node[n]
           d == [a EXCEPT !.ready[c] = TRUE]
           P == GetForwardPendingBundles(d, c)
           f == Forward(d, P)
<1>1. Source \in Nodes /\ Source # Destination  BY NetworkAssumption
<1>2. Step(n, f, {}) /\ UNCHANGED <<reached, expired, taken>>  BY DEF LinkUp
<1>3. /\ AgentInv(a) /\ a \in AgentState /\ Configured(n, a)
      /\ n = Source => SourceHolds(a, reached)
      /\ n = Destination => DestinationHolds(a, reached)
      /\ n \notin {Source, Destination} => Referred(a) = {}
      /\ \A x \in Refs : a.sent[x] = <<>>
  BY NodeHolds
<1> HIDE DEF a
<1>4. /\ d \in AgentState /\ d.eid = a.eid /\ d.reg = a.reg /\ d.route = a.route
      /\ d.seq = a.seq /\ d.heap = a.heap /\ d.store = a.store /\ d.expiry = a.expiry
      /\ d.retrans = a.retrans /\ d.lost = a.lost /\ d.sent = a.sent
  BY <1>3 DEF AgentState
<1> HIDE DEF d
<1>5. AgentInv(d)  BY <1>3, <1>4, ConfigurationInv
<1>6. AgentInv(f)  BY <1>5, PendingInv
<1>7. /\ P \in SUBSET Refs
      /\ \A r \in P : r \in Referred(a) /\ FP \in a.heap[r].ret
  BY <1>4 DEF GetForwardPendingBundles, Referred, AgentState
<1> HIDE DEF P, f
<1>8. f = Forward(d, P)  BY DEF f
<1>9. d.route = RouteOf[n] /\ \A x \in Refs : d.sent[x] = <<>>
  BY <1>3, <1>4 DEF Configured
<1>10. Referred(d) = Referred(a)  BY <1>4 DEF Referred
<1>11. Referred(a) = {} =>
         /\ f \in AgentState /\ SameNode(f, d) /\ f.seq = d.seq
         /\ Referred(f) = {} /\ Handed(f) = {}
  <2> SUFFICES ASSUME Referred(a) = {}
               PROVE  /\ f \in AgentState /\ SameNode(f, d) /\ f.seq = d.seq
                      /\ Referred(f) = {} /\ Handed(f) = {}
    OBVIOUS
  <2>1. P = {}  BY <1>7
  <2> QED BY <1>4, <1>8, <1>9, <1>10, <2>1, ForwardNothing
<1> DEFINE Goes ==
      /\ f \in AgentState /\ SameNode(f, d) /\ f.seq = d.seq
      /\ n = Source => f.store = d.store
      /\ Holds(n, f, reached)
      /\ \A m \in Handed(f) : MessageInv(m, reached)
<1>12. ASSUME n = Source PROVE Goes
  <2>1. \A q \in Referred(d) \cup P : AtSource(d.heap[q], reached)
    BY <1>3, <1>4, <1>7, <1>10, <1>12 DEF SourceHolds
  <2>2. /\ f \in AgentState /\ SameNode(f, d) /\ f.seq = d.seq
        /\ f.store = d.store /\ SourceHolds(f, reached)
        /\ \A m \in Handed(f) : MessageInv(m, reached)
    <3>1. SourceForwards(f, d, reached)
      BY <1>4, <1>7, <1>8, <1>9, <2>1, ForwardAtSource
    <3> QED BY <3>1 DEF SourceForwards
  <2> QED BY <1>1, <1>12, <2>2 DEF Holds
<1>13. ASSUME n = Destination PROVE Goes
  <2>1. \A q \in Referred(d) \ P :
          AtDestination(d.heap[q], reached) \/ WaitingSignal(d.heap[q], reached)
    BY <1>3, <1>4, <1>10, <1>13 DEF DestinationHolds
  <2>2. \A q \in P : SignalBundle(d.heap[q], reached) /\ d.heap[q].ret \subseteq {DP, FP}
    <3>1. DP # FP  BY DEF DP, FP
    <3> QED BY <1>3, <1>4, <1>7, <1>13, <3>1 DEF DestinationHolds, AtDestination, WaitingSignal
  <2>3. /\ f \in AgentState /\ SameNode(f, d) /\ f.seq = d.seq
        /\ DestinationHolds(f, reached)
        /\ \A m \in Handed(f) : MessageInv(m, reached)
    <3>1. DestinationForwards(f, d, reached)
      BY <1>4, <1>7, <1>8, <1>9, <2>1, <2>2, ForwardAtDestination
    <3> QED BY <3>1 DEF DestinationForwards
  <2> QED BY <1>1, <1>13, <2>3 DEF Holds
<1>14. ASSUME n \notin {Source, Destination} PROVE Goes
  BY <1>3, <1>11, <1>14 DEF Holds
<1>15. Goes  BY <1>12, <1>13, <1>14
<1>16. Configured(n, f)
  <2>1. Configured(n, d)  BY <1>3, <1>4 DEF Configured
  <2> QED BY <1>15, <2>1, StaysConfigured
<1>17. Outcome(n, f, reached)  BY <1>6, <1>15, <1>16 DEF Outcome
<1>18. /\ f.seq = node[n].seq
       /\ n = Source => f.store = node[n].store
       /\ Referred(node[n]) = {} => Referred(f) = {} /\ Handed(f) = {}
  BY <1>4, <1>11, <1>15 DEF a
<1> QED BY <1>2, <1>17, <1>18, Unnoticed

(* A link goes down.                                                       *)
LEMMA LinkDownStep ==
  ASSUME Direct, NetInv(node, net, reached), NEW n \in Nodes, NEW c \in Clas, LinkDown(n, c)
  PROVE  Preserved
<1> DEFINE a == node[n]
           f == [a EXCEPT !.ready[c] = FALSE]
<1>1. Step(n, f, {}) /\ UNCHANGED <<reached, expired, taken>>  BY DEF LinkDown
<1>2. /\ AgentInv(a) /\ a \in AgentState /\ Configured(n, a) /\ Holds(n, a, reached)
      /\ \A x \in Refs : a.sent[x] = <<>>
  BY NodeHolds
<1> HIDE DEF a
<1>3. /\ f \in AgentState /\ f.eid = a.eid /\ f.reg = a.reg /\ f.route = a.route
      /\ f.seq = a.seq /\ f.heap = a.heap /\ f.store = a.store /\ f.expiry = a.expiry
      /\ f.retrans = a.retrans /\ f.lost = a.lost /\ f.sent = a.sent
  BY <1>2 DEF AgentState
<1> HIDE DEF f
<1>4. AgentInv(f)  BY <1>2, <1>3, ConfigurationInv
<1>5. Referred(f) = Referred(a)  BY <1>3 DEF Referred
<1>6. Handed(f) = {}  BY <1>2, <1>3, NothingHanded
<1>7. Holds(n, f, reached)
  BY <1>2, <1>3, <1>5 DEF Holds, SourceHolds, DestinationHolds
<1>8. Configured(n, f)  BY <1>2, <1>3 DEF Configured
<1>9. Outcome(n, f, reached)  BY <1>4, <1>6, <1>7, <1>8 DEF Outcome
<1>10. /\ f.seq = node[n].seq /\ f.store = node[n].store
       /\ Referred(node[n]) = {} => Referred(f) = {} /\ Handed(f) = {}
  BY <1>3, <1>5, <1>6 DEF a
<1> QED BY <1>1, <1>9, <1>10, Unnoticed

----------------------------------------------------------------------------
(* The specification.                                                      *)

Inv == NetInv(node, net, reached)

(* In the initial state every node is empty.                               *)
LEMMA InitInv ==
  ASSUME Init PROVE Inv
<1>1. node = [n \in Nodes |-> InitAgent(n)] /\ net = {} /\ reached = {}  BY DEF Init
<1>2. node = [n \in Nodes |-> node[n]]  BY <1>1
<1>3. ASSUME NEW n \in Nodes
      PROVE  NodeInv(n, node[n], reached) /\ Referred(node[n]) = {}
  <2> DEFINE a == InitAgent(n)
  <2>1. node[n] = a  BY <1>1
  <2>2. a \in AgentState
    <3>1. AgentEid[n] \in Eids /\ RouteOf[n] \in [Eids -> Clas \cup {NoCla}]
      BY NetworkAssumption
    <3>2. [r \in Refs |-> <<>>] \in [Refs -> Seq(Bundles)]  OBVIOUS
    <3>3. [e \in Eids |-> IF e \in LocalEids(n) THEN "active" ELSE "none"]
            \in [Eids -> Registration]
      BY DEF Registration
    <3> QED BY <3>1, <3>2, <3>3 DEF InitAgent, AgentState
  <2>3. /\ a.eid = AgentEid[n] /\ a.route = RouteOf[n]
        /\ a.reg = [e \in Eids |-> IF e \in LocalEids(n) THEN "active" ELSE "none"]
        /\ a.store = {} /\ a.retrans = {} /\ a.expiry = {} /\ a.lost = {}
        /\ \A r \in Refs : a.sent[r] = <<>>
    BY DEF InitAgent
  <2> HIDE DEF a
  <2>4. AgentInv(a)  BY <2>2, <2>3 DEF AgentInv, Owned
  <2>5. Referred(a) = {}  BY <2>3 DEF Referred
  <2>6. Holds(n, a, reached)  BY <2>5 DEF Holds, SourceHolds, DestinationHolds
  <2>7. Configured(n, a)  BY <2>3 DEF Configured
  <2> QED BY <2>1, <2>3, <2>4, <2>5, <2>6, <2>7 DEF NodeInv
<1>4. Idle(node, net, reached)  BY <1>1, <1>3 DEF Idle
<1>5. reached \subseteq AduBytes /\ \A m \in net : MessageInv(m, reached)  BY <1>1
<1> QED BY <1>2, <1>3, <1>4, <1>5 DEF Inv, NetInv

(* Every step keeps the invariant and is a step of custody transfer.       *)
LEMMA NextPreserves ==
  ASSUME Direct, Inv, Next
  PROVE  Preserved
<1>1. NetInv(node, net, reached)  BY DEF Inv
<1>2. CASE Application
  <2>1. ASSUME NEW life \in AduLife, NEW r \in Refs, NEW late \in Lateness(life),
               AppSend(life, r, late)
        PROVE  Preserved
    BY <1>1, <2>1, AppSendStep
  <2>2. CASE Receive  BY <1>1, <2>2, ReceiveStep
  <2> QED BY <1>2, <2>1, <2>2 DEF Application
<1>3. CASE Network
  <2>1. PICK m \in net, r \in Refs, r2 \in Refs :
               \E late, late2 \in Lateness(m.bundle.life) : Arrive(m, r, late, r2, late2)
    BY <1>3 DEF Network
  <2> QED BY <1>1, <2>1, ArriveStep
<1>4. CASE Timer
  <2>1. PICK n \in Nodes, r \in Refs : Expire(n, r) \/ Retransmit(n, r)
    BY <1>4 DEF Timer
  <2> QED BY <1>1, <2>1, ExpireStep, RetransmitStep
<1>5. CASE Links
  <2>1. PICK n \in Nodes : \E c \in LinksOf(n) : LinkUp(n, c) \/ LinkDown(n, c)
    BY <1>5 DEF Links
  <2>2. PICK c \in LinksOf(n) : LinkUp(n, c) \/ LinkDown(n, c)  BY <2>1
  <2>3. c \in Clas  BY DEF LinksOf
  <2> QED BY <1>1, <2>2, <2>3, LinkUpStep, LinkDownStep
<1> QED BY <1>2, <1>3, <1>4, <1>5 DEF Next

(* The inductive invariant of custody transfer.                            *)
THEOREM NetInvariant ==
  ASSUME Direct PROVE Spec => []Inv
<1>1. Init => Inv  BY InitInv
<1>2. Inv /\ [Next]_vars => Inv'
  <2> SUFFICES ASSUME Inv, [Next]_vars PROVE Inv'  OBVIOUS
  <2>1. CASE Next  BY <2>1, NextPreserves DEF Preserved, Inv
  <2>2. CASE UNCHANGED vars  BY <2>2 DEF vars, Inv
  <2> QED BY <2>1, <2>2
<1> QED BY <1>1, <1>2, PTL DEF Spec

(* Coalescing in EnqueueForDeliveryToApplication is exact: in whatever     *)
(* order pieces of any size come, and come again, what is stored stays     *)
(* within the ADU and counts as whole exactly when it is.                  *)
THEOREM ReassemblyExact ==
  ASSUME Direct PROVE Spec => []ReassemblyIsExact
<1>1. Inv => ReassemblyIsExact
  <2> SUFFICES ASSUME Inv, NEW r \in Copies(Destination),
                      NEW b, b = node[Destination].heap[r]
               PROVE  /\ End(b) <= b.aduLen
                      /\ ~ b.frag <=> b.off = 0 /\ b.size = b.aduLen
    BY DEF ReassemblyIsExact
  <2>1. r \in node[Destination].store /\ b.src = SendEid  BY DEF Copies, IsAdu
  <2>2. DestinationHolds(node[Destination], reached)
    BY NodeHolds, NetworkAssumption DEF Inv
  <2>3. AtDestination(b, reached)
    BY <2>1, <2>2, Endpoints DEF DestinationHolds, Referred, WaitingSignal, SignalBundle
  <2> QED BY <2>3 DEF AtDestination, OfAdu
<1> QED BY NetInvariant, <1>1, PTL

(* The agents implement custody transfer: every step of theirs accepts     *)
(* custody, reaches bytes, releases, expires or takes, or is not seen.     *)
THEOREM CustodyTransferred ==
  ASSUME Direct PROVE Spec => CustodyIsTransferred
<1>1. Init => Transfer!Init
  <2> SUFFICES ASSUME Init PROVE Transfer!Init  OBVIOUS
  <2>1. Source \in Nodes  BY NetworkAssumption
  <2>2. node[Source].seq = 0  BY <2>1 DEF Init, InitAgent
  <2> QED BY <2>2 DEF Init, Custody, Transfer!Init
<1>2. Inv /\ [Next]_vars => [Transfer!Next]_(Transfer!vars)
  <2> SUFFICES ASSUME Inv, [Next]_vars
               PROVE  Transfer!Next \/ UNCHANGED <<Custody, reached, taken>>
    BY DEF Transfer!vars
  <2>1. CASE Next  BY <2>1, NextPreserves DEF Preserved
  <2>2. CASE UNCHANGED vars
    <3>1. UNCHANGED <<Custody, reached, taken>>  BY <2>2 DEF vars, Custody, Copies
    <3> QED BY <3>1
  <2> QED BY <2>1, <2>2
<1> QED BY NetInvariant, <1>1, <1>2, PTL DEF Spec, CustodyIsTransferred, Transfer!Spec

=============================================================================
