------------------------- MODULE BpHandlers6Proofs -------------------------
(***************************************************************************)
(* Lemmas about the handlers of BpHandlers6, for every value of the        *)
(* constants, on which the proofs about BpAgent6 and BpNetwork rest.       *)
(*                                                                         *)
(* AgentInv is the invariant of one agent.  Handlers are functions on      *)
(* agent states, so there is a lemma for each of them (StoreEffect,        *)
(* RemoveInv, ForwardInv, SendInv, AcknowledgeInv, CoalesceInv, ...) which *)
(* the lemmas of its callers cite.                                         *)
(***************************************************************************)
EXTENDS BpHandlers6, NumberLemmas, FiniteSetTheorems, TLAPS

(* The sets of retention constraints a stored bundle may have.             *)
Constraints == {{DP}, {FP}, {CA}, {FP, CA}}

(* One object of the agent: what is referred to is a bundle, a             *)
(* retransmission is scheduled only for a bundle that waits for its        *)
(* custody to be released and for nothing else, an expiry event exists     *)
(* exactly for a stored bundle with a finite lifetime, and a stored bundle *)
(* in custody has a trigger for its next transmission.                     *)
Owned(a, r) ==
  /\ r \in a.store \cup a.retrans => a.heap[r] \in Bundles
  /\ r \in a.retrans => a.heap[r].custody /\ a.heap[r].ret = {CA}
  /\ r \in a.expiry <=> r \in a.store /\ a.heap[r].life = "finite"
  /\ r \in a.store => a.heap[r].ret \in Constraints
  /\ r \in a.store /\ CA \in a.heap[r].ret =>
       /\ a.heap[r].custody
       /\ (FP \in a.heap[r].ret) # (r \in a.retrans)

(* The inductive invariant. It is stated of an agent state, not of the     *)
(* variable, because handlers pass agent states from one to the next.      *)
AgentInv(a) ==
  /\ a \in AgentState
  /\ a.lost = {}
  /\ \A r \in Refs : Owned(a, r)

(* What Forward needs of an object it is called with. It is weaker than    *)
(* Owned: Send and ProcessBundle call Forward with DISPATCH_PENDING,       *)
(* Retransmit with an object whose event has just left the queue.          *)
Forwardable(a, r) ==
  /\ a.heap[r] \in Bundles
  /\ r \notin a.retrans
  /\ r \in a.expiry <=> r \in a.store /\ a.heap[r].life = "finite"
  /\ CA \in a.heap[r].ret => a.heap[r].custody

(* Rounding up the number of pieces (Forward): every piece starts inside   *)
(* the ADU.                                                                *)
LEMMA DivBound ==
  ASSUME NEW x \in Nat, NEW B \in Nat \ {0}, NEW k \in 1..((x + B - 1) \div B)
  PROVE  (k - 1) * B <= x - 1
<1> DEFINE n == (x + B - 1) \div B
<1>1. n \in Int /\ B * n <= x + B - 1  OBVIOUS
<1>2. k <= n /\ k \in Nat /\ 1 <= k  OBVIOUS
<1> HIDE DEF n
<1>3. B * k <= B * n  BY <1>1, <1>2
<1>4. (k - 1) * B = B * k - B  BY <1>2
<1> QED BY <1>1, <1>2, <1>3, <1>4

(* What the Forward loop puts on the wire is a bundle: the size of the     *)
(* last piece is not negative.                                             *)
LEMMA PieceTyped ==
  ASSUME NEW b \in Bundles, NEW k \in 1..Pieces(b)
  PROVE  Piece(b, k) \in Bundles
<1>1. b.size \in Nat  BY DEF Bundles
<1>2. BundleSize \in Nat \ {0}  BY BundleAssumption
<1>3. k \in Nat /\ k >= 1 /\ (k - 1) * BundleSize <= b.size - 1
  BY <1>1, <1>2, DivBound DEF Pieces
<1>4. PieceSize(b, k) \in Nat  BY <1>1, <1>2, <1>3 DEF PieceSize
<1>5. PieceOffset(b, k) \in Nat  BY <1>1, <1>2, <1>3 DEF PieceOffset
<1>6. MustFragment(b) \in BOOLEAN  BY DEF MustFragment
<1> QED BY <1>4, <1>5, <1>6 DEF Piece, Bundles, Acks

(* The bundles handed to the CLA by one Forward are a sequence of bundles. *)
LEMMA TransmissionTyped ==
  ASSUME NEW b \in Bundles
  PROVE  Transmission(b) \in Seq(Bundles)
<1>1. b.size \in Nat  BY DEF Bundles
<1>2. BundleSize \in Nat \ {0}  BY BundleAssumption
<1>3. Pieces(b) \in Nat  BY <1>1, <1>2 DEF Pieces
<1> QED BY <1>3, PieceTyped DEF Transmission

(* Rewriting the stored header for each piece (Forward) leaves a bundle,   *)
(* and its retention constraints and lifetime.                             *)
LEMMA AfterTransmissionTyped ==
  ASSUME NEW b \in Bundles
  PROVE  /\ AfterTransmission(b) \in Bundles
         /\ AfterTransmission(b).ret = b.ret
         /\ AfterTransmission(b).life = b.life
         /\ AfterTransmission(b).custody = b.custody
<1>1. b.size \in Nat  BY DEF Bundles
<1>2. BundleSize \in Nat \ {0}  BY BundleAssumption
<1>3. CASE b.size = 0  BY <1>3 DEF AfterTransmission
<1>4. CASE b.size # 0
  <2>1. Pieces(b) \in 1..Pieces(b)  BY <1>1, <1>2, <1>4 DEF Pieces
  <2>2. (Pieces(b) - 1) * BundleSize >= 0  BY <2>1, <1>2
  <2>3. PieceOffset(b, Pieces(b)) \in Nat  BY <1>1, <1>2, <2>1, <2>2 DEF PieceOffset
  <2>4. MustFragment(b) \in BOOLEAN  BY DEF MustFragment
  <2> QED BY <1>4, <2>3, <2>4 DEF AfterTransmission, Bundles
<1> QED BY <1>3, <1>4

(* A transmitted bundle is a bundle without DISPATCH_PENDING and           *)
(* FORWARD_PENDING.                                                        *)
LEMMA ForwardedTyped ==
  ASSUME NEW b \in Bundles
  PROVE  /\ Forwarded(b) \in Bundles
         /\ Forwarded(b).ret = b.ret \ {DP, FP}
         /\ Forwarded(b).life = b.life
         /\ Forwarded(b).custody = b.custody
<1> DEFINE c == AfterTransmission(b)
<1>1. c \in Bundles /\ c.ret = b.ret /\ c.life = b.life /\ c.custody = b.custody
  BY AfterTransmissionTyped
<1> HIDE DEF c
<1>2. Forwarded(b) = [c EXCEPT !.ret = @ \ {DP, FP}]  BY DEF Forwarded, c
<1> QED BY <1>1, <1>2 DEF Bundles

(* A bundle that could not be forwarded is a bundle that has               *)
(* FORWARD_PENDING in place of DISPATCH_PENDING.                           *)
LEMMA ContraindicatedTyped ==
  ASSUME NEW b \in Bundles
  PROVE  /\ Contraindicated(b) \in Bundles
         /\ Contraindicated(b).ret = (b.ret \ {DP}) \cup {FP}
         /\ Contraindicated(b).life = b.life
         /\ Contraindicated(b).custody = b.custody
BY DEF Contraindicated, Bundles, RetentionConstraints

(* The retention constraints of a bundle are among the three that exist.   *)
LEMMA BundleConstraints ==
  ASSUME NEW b \in Bundles
  PROVE  b.ret \subseteq {DP, FP, CA}
BY DEF Bundles, RetentionConstraints

(* Forward restores the invariant of every object it is called with and    *)
(* keeps that of the others: an object without a CLA waits for ClaReady,   *)
(* one with custody for its retransmission, and any other leaves the store *)
(* with its events.                                                        *)
LEMMA ForwardInv ==
  ASSUME NEW a \in AgentState, a.lost = {}, NEW R \in SUBSET Refs,
         \A r \in R : Forwardable(a, r),
         \A r \in Refs \ R : Owned(a, r)
  PROVE  AgentInv(Forward(a, R))
<1> DEFINE go   == {r \in R : CanSend(a, r)}
           done == {r \in go : Forwarded(a.heap[r]).ret = {}}
           f    == Forward(a, R)
           heap == [r \in Refs |-> IF r \in go THEN Forwarded(a.heap[r])
                                   ELSE IF r \in R THEN Contraindicated(a.heap[r])
                                   ELSE a.heap[r]]
           sent == [r \in Refs |-> IF r \in go THEN Transmission(a.heap[r]) ELSE a.sent[r]]
<1>1. /\ f.heap = heap /\ f.sent = sent
      /\ f.store = a.store \ done
      /\ f.expiry = a.expiry \ done
      /\ f.retrans = (a.retrans \cup Armed(a, go)) \ done
      /\ f.lost = a.lost \cup (Armed(a, go) \cap a.retrans)
      /\ f.eid = a.eid /\ f.reg = a.reg /\ f.ready = a.ready
      /\ f.route = a.route /\ f.seq = a.seq
      /\ f = [eid |-> f.eid, reg |-> f.reg, ready |-> f.ready, route |-> f.route,
              seq |-> f.seq, heap |-> f.heap, store |-> f.store, expiry |-> f.expiry,
              retrans |-> f.retrans, lost |-> f.lost, sent |-> f.sent]
  <2> DEFINE after == [a EXCEPT !.heap = heap, !.retrans = @ \cup Armed(a, go),
                                !.lost = @ \cup (Armed(a, go) \cap a.retrans),
                                !.sent = sent]
  <2>1. f = Remove(after, done)  BY DEF Forward, AgentState
  <2> HIDE DEF f, heap, sent, go, done
  <2> QED BY <2>1 DEF Remove, AgentState
<1>2. go \subseteq Refs /\ done \subseteq go /\ Armed(a, go) \subseteq go
  BY DEF Armed
<1>3. \A r \in R : a.heap[r] \in Bundles  BY DEF Forwardable
<1>4. heap \in [Refs -> Bundles \cup {NoBundle}]
  BY <1>3, ForwardedTyped, ContraindicatedTyped DEF AgentState
<1>5. sent \in [Refs -> Seq(Bundles)]
  BY <1>3, TransmissionTyped DEF AgentState
<1>6. f.lost = {}
  BY <1>1, <1>2 DEF Forwardable
<1>7. f \in AgentState
  <2> HIDE DEF go, done, f, heap, sent
  <2> QED BY <1>1, <1>2, <1>4, <1>5 DEF AgentState
<1>8. ASSUME NEW r \in Refs PROVE Owned(f, r)
  <2>1. CASE r \notin R
    <3>1. /\ f.heap[r] = a.heap[r] /\ (r \in f.store <=> r \in a.store)
          /\ (r \in f.expiry <=> r \in a.expiry) /\ (r \in f.retrans <=> r \in a.retrans)
      BY <1>1, <1>2, <2>1
    <3> QED BY <3>1, <2>1 DEF Owned
  <2>2. CASE r \in R \ go
    <3>1. /\ f.heap[r] = Contraindicated(a.heap[r]) /\ (r \in f.store <=> r \in a.store)
          /\ (r \in f.expiry <=> r \in a.expiry) /\ r \notin f.retrans
      BY <1>1, <1>2, <2>2 DEF Forwardable
    <3>2. Forwardable(a, r)  BY <2>2
    <3>3. f.heap[r].ret \in Constraints /\ FP \in f.heap[r].ret
      BY <3>1, <3>2, <1>3, <2>2, ContraindicatedTyped, BundleConstraints DEF Constraints
    <3> HIDE DEF f
    <3>4. f.heap[r] \in Bundles /\ f.heap[r].life = a.heap[r].life
      BY <3>1, <3>2, ContraindicatedTyped DEF Forwardable
    <3>5. f.heap[r].ret = (a.heap[r].ret \ {DP}) \cup {FP}
      BY <3>1, <3>2, ContraindicatedTyped DEF Forwardable
    <3>6. f.heap[r].custody = a.heap[r].custody
      BY <3>1, <3>2, ContraindicatedTyped DEF Forwardable
    <3>7. CA \in f.heap[r].ret => f.heap[r].custody
      BY <3>2, <3>5, <3>6 DEF Forwardable, FP, CA
    <3> QED BY <3>1, <3>2, <3>3, <3>4, <3>7 DEF Owned, Forwardable
  <2>3. CASE r \in done
    BY <1>1, <2>3, <1>4 DEF Owned
  <2>4. CASE r \in go \ done
    <3>1. /\ f.heap[r] = Forwarded(a.heap[r]) /\ (r \in f.store <=> r \in a.store)
          /\ (r \in f.expiry <=> r \in a.expiry)
          /\ (r \in f.retrans <=> a.heap[r].custody)
      BY <1>1, <1>2, <2>4 DEF Armed, Forwardable
    <3>2. Forwardable(a, r)  BY <2>4
    <3>3. f.heap[r].ret = {CA}
      BY <3>1, <3>2, <2>4, ForwardedTyped, BundleConstraints DEF Forwardable
    <3>4. CA \in a.heap[r].ret
      BY <3>1, <3>2, <3>3, ForwardedTyped DEF Forwardable
    <3>5. /\ f.heap[r] \in Bundles /\ f.heap[r].life = a.heap[r].life
          /\ f.heap[r].custody /\ a.heap[r].custody
      BY <3>1, <3>2, <3>4, ForwardedTyped DEF Forwardable
    <3>6. FP \notin {CA} /\ {CA} \in Constraints  BY DEF Constraints, FP, CA
    <3> HIDE DEF f
    <3> QED BY <3>1, <3>2, <3>3, <3>5, <3>6 DEF Owned, Forwardable
  <2> QED BY <2>1, <2>2, <2>3, <2>4
<1> QED BY <1>6, <1>7, <1>8 DEF AgentInv

(* BundleStore::Remove keeps the invariant, because it cancels both        *)
(* events, and touches no bundle.                                          *)
LEMMA RemoveInv ==
  ASSUME NEW a, AgentInv(a), NEW R \in SUBSET Refs
  PROVE  /\ AgentInv(Remove(a, R))
         /\ Remove(a, R).heap = a.heap /\ Remove(a, R).eid = a.eid
<1> DEFINE d == Remove(a, R)
<1>1. /\ d.heap = a.heap /\ d.eid = a.eid /\ d.lost = a.lost
      /\ d.store = a.store \ R /\ d.expiry = a.expiry \ R /\ d.retrans = a.retrans \ R
      /\ d \in AgentState
  BY DEF AgentInv, AgentState, Remove
<1> HIDE DEF d
<1>2. ASSUME NEW r \in Refs PROVE Owned(d, r)
  <2>1. Owned(a, r)  BY DEF AgentInv
  <2> QED BY <1>1, <2>1 DEF Owned
<1>3. d.lost = {}  BY <1>1 DEF AgentInv
<1>4. AgentInv(d)  BY <1>1, <1>2, <1>3 DEF AgentInv
<1> QED BY <1>1, <1>4 DEF d

(* Forgetting the objects out of reach keeps the invariant.                *)
LEMMA CollectInv ==
  ASSUME NEW a, AgentInv(a)
  PROVE  AgentInv(Collect(a))
<1> DEFINE d == Collect(a)
<1>1. /\ d.lost = a.lost /\ d.store = a.store /\ d.expiry = a.expiry
      /\ d.retrans = a.retrans /\ d \in AgentState
      /\ \A r \in a.store \cup a.retrans : d.heap[r] = a.heap[r]
  BY DEF AgentInv, AgentState, Collect, Reachable
<1> HIDE DEF d
<1>2. ASSUME NEW r \in Refs PROVE Owned(d, r)
  <2>1. Owned(a, r)  BY DEF AgentInv
  <2> QED BY <1>1, <2>1 DEF Owned
<1>3. AgentInv(d)  BY <1>1, <1>2 DEF AgentInv
<1> QED BY <1>3 DEF d

(* Forgetting what the last step sent keeps the invariant and all that the *)
(* handlers read.                                                          *)
LEMMA QuietInv ==
  ASSUME NEW a, AgentInv(a)
  PROVE  AgentInv(Quiet(a)) /\ Free(Quiet(a)) = Free(a) /\ Quiet(a).reg = a.reg
<1> DEFINE d == Quiet(a)
<1>1. /\ d.lost = a.lost /\ d.store = a.store /\ d.expiry = a.expiry
      /\ d.retrans = a.retrans /\ d.heap = a.heap /\ d.reg = a.reg
  BY DEF AgentInv, AgentState, Quiet
<1>2. d \in AgentState
  <2> DEFINE sent == [r \in Refs |-> <<>>]
  <2>1. sent \in [Refs -> Seq(Bundles)]  OBVIOUS
  <2>2. d = [a EXCEPT !.sent = sent]  BY DEF Quiet
  <2> HIDE DEF sent, d
  <2> QED BY <2>1, <2>2 DEF AgentInv, AgentState
<1> HIDE DEF d
<1>3. ASSUME NEW r \in Refs PROVE Owned(d, r)
  <2>1. Owned(a, r)  BY DEF AgentInv
  <2> QED BY <1>1, <2>1 DEF Owned
<1>4. AgentInv(d)  BY <1>1, <1>2, <1>3 DEF AgentInv
<1> QED BY <1>1, <1>4 DEF d, Free

(* An address without an object is neither stored nor referred to by an    *)
(* event.                                                                  *)
LEMMA FreeIsUnused ==
  ASSUME NEW a, AgentInv(a), NEW r \in Free(a)
  PROVE  r \in Refs /\ r \notin a.store \cup a.retrans \cup a.expiry
<1>1. r \in Refs /\ a.heap[r] \notin Bundles  BY RefsAssumption DEF Free
<1>2. Owned(a, r)  BY <1>1 DEF AgentInv
<1> QED BY <1>1, <1>2 DEF Owned

(* BundleStore::Store at a free address: the other objects are as before,  *)
(* the new one is stored with an expiry event if and only if its lifetime  *)
(* asks for it, or not at all if it is late.                               *)
LEMMA StoreEffect ==
  ASSUME NEW a, AgentInv(a), NEW r \in Free(a), NEW b \in Bundles, NEW late \in BOOLEAN
  PROVE  LET s == Store(a, r, b, late) IN
         /\ s \in AgentState /\ s.lost = {} /\ s.eid = a.eid
         /\ s.heap[r] = b /\ r \notin s.retrans
         /\ r \in s.expiry <=> r \in s.store /\ b.life = "finite"
         /\ \A q \in Refs \ {r} : Owned(s, q) /\ s.heap[q] = a.heap[q]
<1> DEFINE s == Store(a, r, b, late)
<1>1. r \in Refs /\ r \notin a.store \cup a.retrans \cup a.expiry  BY FreeIsUnused
<1>2. /\ s.lost = a.lost /\ s.eid = a.eid /\ s.retrans = a.retrans
      /\ s.heap = [a.heap EXCEPT ![r] = b]
      /\ \/ s.store = a.store /\ s.expiry = a.expiry
         \/ s.store = a.store \cup {r} /\ s.expiry = a.expiry /\ b.life # "finite"
         \/ s.store = a.store \cup {r} /\ s.expiry = a.expiry \cup {r} /\ b.life = "finite"
      /\ s \in AgentState
  BY <1>1 DEF AgentInv, AgentState, Store
<1> HIDE DEF s
<1>3. /\ s.heap[r] = b /\ \A q \in Refs \ {r} : s.heap[q] = a.heap[q]
  BY <1>1, <1>2 DEF AgentInv, AgentState
<1>4. ASSUME NEW q \in Refs \ {r} PROVE Owned(s, q)
  <2>1. Owned(a, q)  BY DEF AgentInv
  <2>2. /\ q \in s.store <=> q \in a.store
        /\ q \in s.expiry <=> q \in a.expiry
        /\ q \in s.retrans <=> q \in a.retrans
    BY <1>2
  <2> QED BY <1>3, <2>1, <2>2 DEF Owned
<1>5. s.lost = {}  BY <1>2 DEF AgentInv
<1> QED BY <1>1, <1>2, <1>3, <1>4, <1>5 DEF s

(* BpAgent6::Send keeps the invariant.                                     *)
LEMMA SendInv ==
  ASSUME NEW a, AgentInv(a), NEW r \in Free(a), NEW m \in SendArguments, NEW late \in BOOLEAN
  PROVE  AgentInv(Send(a, r, m, late))
<1>1. CASE m.src # defaultEid /\ ~ IsNodeMember(a, m.src)
  BY <1>1 DEF Send
<1>2. CASE ~ (m.src # defaultEid /\ ~ IsNodeMember(a, m.src))
  <2> DEFINE n == [a EXCEPT !.seq = @ + 1]
             b == NewBundle(a, m)
             s == Store(n, r, b, late)
  <2>1. b \in Bundles /\ (CA \in b.ret => b.custody)
    <3>1. a.eid \in Eids /\ a.seq \in Nat /\ defaultEid \in Eids
      BY BundleAssumption DEF AgentInv, AgentState
    <3>2. /\ m.src \in Eids /\ m.dst \in Eids /\ m.size \in Nat /\ m.content \in Contents
          /\ m.life \in Lifetimes /\ m.custody \in BOOLEAN /\ m.prio \in Nat
      BY DEF SendArguments
    <3>3. CASE m.custody = TRUE
      BY <3>1, <3>2, <3>3 DEF NewBundle, Bundles, Acks, RetentionConstraints
    <3>4. CASE m.custody = FALSE
      BY <3>1, <3>2, <3>4 DEF NewBundle, Bundles, Acks, RetentionConstraints, DP, CA
    <3> QED BY <3>2, <3>3, <3>4
  <2>2. n \in AgentState /\ n.lost = a.lost /\ n.store = a.store /\ n.expiry = a.expiry
        /\ n.retrans = a.retrans /\ n.heap = a.heap
    <3>1. a \in AgentState  BY DEF AgentInv
    <3>2. a.seq \in Nat /\ a.seq + 1 \in Nat  BY <3>1 DEF AgentState
    <3> QED BY <3>1, <3>2 DEF AgentState
  <2> HIDE DEF n, b
  <2>3. ASSUME NEW q \in Refs PROVE Owned(n, q)
    <3>1. Owned(a, q)  BY DEF AgentInv
    <3> QED BY <2>2, <3>1 DEF Owned
  <2>4. AgentInv(n) /\ r \in Free(n)
    BY <2>2, <2>3 DEF AgentInv, Free
  <2>5. /\ s \in AgentState /\ s.lost = {}
        /\ s.heap[r] = b /\ r \notin s.retrans
        /\ r \in s.expiry <=> r \in s.store /\ b.life = "finite"
        /\ \A q \in Refs \ {r} : Owned(s, q)
    BY <2>1, <2>4, StoreEffect
  <2>6. r \in Refs  BY DEF Free
  <2> HIDE DEF s
  <2>7. \A q \in {r} : Forwardable(s, q)  BY <2>1, <2>5 DEF Forwardable
  <2>8. AgentInv(Forward(s, {r}))
    BY <2>5, <2>6, <2>7, ForwardInv
  <2> QED BY <1>2, <2>8 DEF Send, s, n, b
<1> QED BY <1>1, <1>2

(* Enqueueing touches sizes, fragment flags and acks of bundles, and       *)
(* removes some from the store.                                            *)
(* What delivery may do to an agent state before the custody signal is     *)
(* sent: keep the invariant, leave the delivered object a bundle, and      *)
(* create no object.                                                       *)
Delivers(d, a, r) ==
  /\ AgentInv(d)
  /\ d.eid = a.eid
  /\ d.heap[r] \in Bundles
  /\ \A q \in Refs : a.heap[q] = NoBundle => d.heap[q] = NoBundle

(* Changing bundles in place keeps the invariant as long as retention      *)
(* constraints, lifetimes and custody requests stay: no event needs to be  *)
(* rescheduled.                                                            *)
LEMMA HeapChange ==
  ASSUME NEW a, AgentInv(a), NEW h \in [Refs -> Bundles \cup {NoBundle}],
         \A q \in Refs : \/ h[q] = a.heap[q]
                         \/ /\ a.heap[q] \in Bundles /\ h[q] \in Bundles
                            /\ h[q].ret = a.heap[q].ret /\ h[q].life = a.heap[q].life
                            /\ h[q].custody = a.heap[q].custody
  PROVE  AgentInv([a EXCEPT !.heap = h])
<1> DEFINE d == [a EXCEPT !.heap = h]
<1>1. /\ d.heap = h /\ d.store = a.store /\ d.retrans = a.retrans
      /\ d.expiry = a.expiry /\ d.lost = a.lost /\ d \in AgentState
  BY DEF AgentInv, AgentState
<1> HIDE DEF d
<1>2. ASSUME NEW q \in Refs PROVE Owned(d, q)
  <2>1. Owned(a, q)  BY DEF AgentInv
  <2>2. CASE h[q] = a.heap[q]  BY <1>1, <2>1, <2>2 DEF Owned
  <2>3. CASE /\ a.heap[q] \in Bundles /\ h[q] \in Bundles
             /\ h[q].ret = a.heap[q].ret /\ h[q].life = a.heap[q].life
             /\ h[q].custody = a.heap[q].custody
    BY <1>1, <2>1, <2>3 DEF Owned
  <2> QED BY <2>2, <2>3
<1>3. AgentInv(d)  BY <1>1, <1>2 DEF AgentInv
<1> QED BY <1>3 DEF d

(* The list of acknowledged intervals keeps at most one.                   *)
LEMMA MergeAckTyped ==
  ASSUME NEW acks \in Acks, NEW ack \in Nat \X Nat
  PROVE  MergeAck(acks, ack) \in Acks
<1>1. CASE acks = NoAcks  BY <1>1 DEF MergeAck, Acks
<1>2. CASE acks # NoAcks  BY <1>2 DEF MergeAck, Acks
<1> QED BY <1>1, <1>2

(* A custody signal, whether it releases the bundle or not, keeps the      *)
(* invariant.                                                              *)
LEMMA AcknowledgeInv ==
  ASSUME NEW a, AgentInv(a), NEW s \in a.store, NEW signal \in CustodySignals,
         NEW r \in Refs, a.heap[r] \in Bundles
  PROVE  Delivers(Acknowledge(a, s, signal), a, r)
<1> DEFINE ack == <<signal.off, signal.off + signal.len>>
           b == [a.heap[s] EXCEPT !.acks = MergeAck(@, ack)]
           h == [a.heap EXCEPT ![s] = b]
           d == [a EXCEPT !.heap = h]
<1>1. s \in Refs /\ a.heap \in [Refs -> Bundles \cup {NoBundle}]
  BY DEF AgentInv, AgentState
<1>2. a.heap[s] \in Bundles  BY <1>1 DEF AgentInv, Owned
<1>3. ack \in Nat \X Nat  BY DEF CustodySignals
<1> HIDE DEF ack
<1>4. MergeAck(a.heap[s].acks, ack) \in Acks
  BY <1>2, <1>3, MergeAckTyped DEF Bundles
<1>5. /\ b \in Bundles /\ b.ret = a.heap[s].ret /\ b.life = a.heap[s].life
      /\ b.custody = a.heap[s].custody
  BY <1>2, <1>4 DEF Bundles
<1> HIDE DEF b
<1>6. h \in [Refs -> Bundles \cup {NoBundle}] /\ h[s] = b
      /\ \A q \in Refs \ {s} : h[q] = a.heap[q]
  BY <1>1, <1>5
<1> HIDE DEF h
<1>7. AgentInv(d)  BY <1>2, <1>5, <1>6, HeapChange
<1>8. d.heap = h /\ d.eid = a.eid  BY DEF AgentInv, AgentState
<1>9. Acknowledge(a, s, signal) \in {d, Remove(d, {s})}
  BY DEF Acknowledge, d, h, b, ack, AgentInv, AgentState
<1>10. AgentInv(Remove(d, {s})) /\ Remove(d, {s}).heap = h /\ Remove(d, {s}).eid = a.eid
  <2> HIDE DEF d
  <2> QED BY <1>1, <1>7, <1>8, RemoveInv
<1>11. \A q \in Refs : a.heap[q] = NoBundle => h[q] = NoBundle
  BY <1>2, <1>6, RefsAssumption
<1>12. h[r] \in Bundles  BY <1>5, <1>6
<1> HIDE DEF d
<1> QED BY <1>7, <1>8, <1>9, <1>10, <1>11, <1>12 DEF Delivers

(* The loop over the bundles of a fragment's ADU ends in a set that none   *)
(* of its rounds leaves.                                                   *)
LEMMA VisitAllLeads ==
  ASSUME NEW a, NEW r, NEW T, a \in T, NEW s, Len(s) \in Nat,
         \A k \in 1..Len(s) : \A x \in T : Visit(x, r, s[k]) \in T
  PROVE  VisitAll(a, r, s) \in T
<1> DEFINE n == Len(s)
           S == [k \in 0..n |-> T]
           g == [kx \in (1..n) \X T |-> Visit(kx[2], r, s[kx[1]])]
           Is(f) == f = [k \in 0..n |-> IF k = 0 THEN a ELSE Visit(f[k - 1], r, s[k])]
           after == CHOOSE f : Is(f)
<1>1. \A k \in 0..n : S[k] = T
  OBVIOUS
<1>2. \A k \in 1..n : \A x \in T : g[<<k, x>>] = Visit(x, r, s[k]) /\ g[<<k, x>>] \in T
  OBVIOUS
<1>3. PICK f : /\ f = [k \in 0..n |-> IF k = 0 THEN a ELSE g[<<k, f[k - 1]>>]]
               /\ \A k \in 0..n : f[k] \in T
  <2>1. n \in Nat
    OBVIOUS
  <2> HIDE DEF n, g, S
  <2>2. a \in S[0] /\ \A k \in 1..n : \A x \in S[k - 1] : g[<<k, x>>] \in S[k]
    <3>1. 0 \in 0..n /\ \A k \in 1..n : k \in 0..n /\ k - 1 \in 0..n
      BY <2>1
    <3> QED BY <1>1, <1>2, <3>1
  <2>3. \E f : IsTrace(f, n, a, g) /\ Within(f, n, S)
    BY <2>1, <2>2, Trace, Zenon
  <2>4. PICK f : IsTrace(f, n, a, g) /\ Within(f, n, S)
    BY <2>3
  <2>5. f = [k \in 0..n |-> IF k = 0 THEN a ELSE g[<<k, f[k - 1]>>]]
    BY <2>4 DEF IsTrace
  <2>6. \A k \in 0..n : f[k] \in T
    BY <1>1, <2>4 DEF Within
  <2> QED BY <2>5, <2>6, Zenon
<1>4. Is(f)
  <2> HIDE DEF g
  <2>1. \A k \in 0..n : k # 0 => g[<<k, f[k - 1]>>] = Visit(f[k - 1], r, s[k])
    <3> SUFFICES ASSUME NEW k \in 0..n, k # 0
                 PROVE  g[<<k, f[k - 1]>>] = Visit(f[k - 1], r, s[k])
      OBVIOUS
    <3>1. k \in 1..n /\ k - 1 \in 0..n
      OBVIOUS
    <3> QED BY <1>2, <1>3, <3>1
  <2> HIDE DEF n
  <2> QED BY <1>3, <2>1, Zenon
<1>5. Is(after)
  <2> HIDE DEF Is
  <2> QED BY <1>4
<1>6. \A k \in 0..n : after[k] = IF k = 0 THEN a ELSE Visit(after[k - 1], r, s[k])
  <2> HIDE DEF after, n
  <2> QED BY <1>5, Zenon
<1> DEFINE U == {k \in 0..n : after[k] \in T}
<1>7. 0 \in U
  <2> HIDE DEF after
  <2> QED BY <1>6
<1>8. ASSUME NEW k \in 1..n, k - 1 \in U
      PROVE  k \in U
  <2> HIDE DEF after
  <2>1. k \in 0..n /\ k # 0 /\ after[k - 1] \in T
    BY <1>8
  <2>2. after[k] = Visit(after[k - 1], r, s[k])
    BY <1>6, <2>1, Zenon
  <2>3. Visit(after[k - 1], r, s[k]) \in T
    BY <2>1
  <2> QED BY <2>1, <2>2, <2>3
<1>9. n \in U
  <2>1. n \in Nat
    OBVIOUS
  <2> HIDE DEF U, n
  <2>2. \A k \in 0..n : k \in U
    BY <1>7, <1>8, <2>1, UpTo
  <2> QED BY <2>1, <2>2
<1>10. VisitAll(a, r, s) = after[n]
  BY Zenon DEF VisitAll
<1> QED
  <2> HIDE DEF after
  <2> QED BY <1>9, <1>10

(* Whatever the rounds of that loop keep, for every bundle of the ADU that *)
(* one of them may visit, it keeps.                                        *)
LEMMA CoalesceLeads ==
  ASSUME NEW a \in AgentState, NEW r, NEW T, a \in T,
         \A x \in T : \A q \in GetBundles(a, a.heap[r].src, a.heap[r].id) : Visit(x, r, q) \in T,
         NEW d \in Coalesce(a, r)
  PROVE  d \in T
<1> DEFINE same == GetBundles(a, a.heap[r].src, a.heap[r].id)
           n == Cardinality(same)
<1>1. n \in Nat
  <2>1. same \subseteq Refs
    BY DEF GetBundles, AgentState
  <2> HIDE DEF same
  <2>2. IsFiniteSet(same)
    BY <2>1, RefsAssumption, FS_Subset
  <2> QED BY <2>2, FS_CardinalityType
<1>2. PICK s \in Listings(a, same) : d = VisitAll(a, r, s)
  BY DEF Coalesce
<1>3. s \in [1..n -> same]
  BY DEF Listings
<1> HIDE DEF same, n
<1>4. Len(s) = n /\ \A k \in 1..n : s[k] \in same
  BY <1>1, <1>3
<1>5. \A k \in 1..Len(s) : \A x \in T : Visit(x, r, s[k]) \in T
  BY <1>4 DEF same
<1> QED BY <1>1, <1>2, <1>4, <1>5, VisitAllLeads

(* One bundle takes in another, which is removed.                          *)
Grown(d, x, y) ==
  Remove([d EXCEPT !.heap[x] = Resized(d.heap[x], d.heap[x].size + d.heap[y].size)], {y})

(* A round of the loop joins two bundles, or does nothing.                 *)
LEMMA VisitCases ==
  ASSUME NEW d, NEW r, NEW x, NEW v, v = Visit(d, r, x)
  PROVE  \/ v = d
         \/ v = Grown(d, x, r) /\ d.heap[r].off = End(d.heap[x])
         \/ v = Grown(d, r, x) /\ End(d.heap[r]) = d.heap[x].off
BY DEF Visit, Grown

(* What a bundle keeps when it grows.                                      *)
LEMMA ResizedTyped ==
  ASSUME NEW c \in Bundles, NEW n \in Nat
  PROVE  /\ Resized(c, n) \in Bundles
         /\ Resized(c, n).ret = c.ret /\ Resized(c, n).life = c.life
         /\ Resized(c, n).custody = c.custody
         /\ Resized(c, n).size = n /\ Resized(c, n).off = c.off
         /\ Resized(c, n).aduLen = c.aduLen
         /\ Resized(c, n).src = c.src /\ Resized(c, n).id = c.id
BY DEF Resized, Bundles

(* Taking in another bundle keeps the invariant: size and fragment flag    *)
(* change in place, and what was taken in is removed.                      *)
LEMMA GrownInv ==
  ASSUME NEW d, AgentInv(d), NEW x \in Refs, NEW y \in Refs,
         d.heap[x] \in Bundles, d.heap[y] \in Bundles,
         NEW v, v = Grown(d, x, y)
  PROVE  /\ AgentInv(v) /\ v.eid = d.eid
         /\ v.heap[x] \in Bundles
         /\ \A q \in Refs \ {x} : v.heap[q] = d.heap[q]
<1> DEFINE n == d.heap[x].size + d.heap[y].size
           c == Resized(d.heap[x], n)
           h == [d.heap EXCEPT ![x] = c]
           g == [d EXCEPT !.heap = h]
<1>1. d \in AgentState /\ d.heap \in [Refs -> Bundles \cup {NoBundle}]
  BY DEF AgentInv, AgentState
<1>2. n \in Nat
  BY DEF Bundles
<1> HIDE DEF n
<1>3. /\ c \in Bundles /\ c.ret = d.heap[x].ret /\ c.life = d.heap[x].life
      /\ c.custody = d.heap[x].custody
  BY <1>2, ResizedTyped
<1>4. v = Remove(g, {y})
  BY <1>1 DEF Grown, AgentState, n
<1> HIDE DEF c
<1>5. /\ h \in [Refs -> Bundles \cup {NoBundle}] /\ h[x] = c
      /\ \A q \in Refs \ {x} : h[q] = d.heap[q]
  BY <1>1, <1>3
<1> HIDE DEF h
<1>6. AgentInv(g)
  BY <1>3, <1>5, HeapChange
<1>7. g.heap = h /\ g.eid = d.eid
  BY <1>1 DEF AgentState
<1> HIDE DEF g
<1>8. AgentInv(v) /\ v.heap = g.heap /\ v.eid = g.eid
  BY <1>4, <1>6, RemoveInv
<1> QED BY <1>3, <1>5, <1>7, <1>8

(* Joining fragments in the store keeps the invariant, whatever they join. *)
LEMMA CoalesceInv ==
  ASSUME NEW a, AgentInv(a), NEW r \in Refs, a.heap[r] \in Bundles,
         NEW d \in Coalesce(a, r)
  PROVE  Delivers(d, a, r)
<1> DEFINE same == GetBundles(a, a.heap[r].src, a.heap[r].id)
           T == {x \in AgentState : Delivers(x, a, r) /\ \A q \in same : x.heap[q] \in Bundles}
<1>1. a \in AgentState
  BY DEF AgentInv
<1>2. \A q \in same : q \in Refs /\ a.heap[q] \in Bundles
  BY <1>1 DEF GetBundles, AgentState, AgentInv, Owned
<1> HIDE DEF same
<1>3. a \in T
  BY <1>1, <1>2 DEF Delivers
<1>4. ASSUME NEW x \in T, NEW q \in same
      PROVE  Visit(x, r, q) \in T
  <2> DEFINE v == Visit(x, r, q)
  <2>1. /\ AgentInv(x) /\ x.eid = a.eid /\ x.heap[r] \in Bundles /\ x.heap[q] \in Bundles
        /\ \A p \in same : x.heap[p] \in Bundles
        /\ \A p \in Refs : a.heap[p] = NoBundle => x.heap[p] = NoBundle
        /\ q \in Refs
    BY <1>2 DEF Delivers
  <2> HIDE DEF T
  <2>2. ASSUME NEW y \in Refs, NEW z \in Refs, v = Grown(x, y, z),
               x.heap[y] \in Bundles, x.heap[z] \in Bundles
        PROVE  v \in T
    <3>1. /\ AgentInv(v) /\ v.eid = x.eid /\ v.heap[y] \in Bundles
          /\ \A p \in Refs \ {y} : v.heap[p] = x.heap[p]
      BY <2>1, <2>2, GrownInv
    <3> HIDE DEF v
    <3>2. \A p \in same : v.heap[p] \in Bundles
      BY <1>2, <2>1, <3>1
    <3>3. v.heap[r] \in Bundles
      BY <2>1, <3>1
    <3>4. \A p \in Refs : a.heap[p] = NoBundle => v.heap[p] = NoBundle
      BY <2>1, <2>2, <3>1, RefsAssumption
    <3> QED BY <2>1, <3>1, <3>2, <3>3, <3>4 DEF T, Delivers, AgentInv
  <2>3. \/ v = x
        \/ v = Grown(x, q, r)
        \/ v = Grown(x, r, q)
    BY VisitCases
  <2> QED BY <2>1, <2>2, <2>3
<1>5. d \in T
  <2> HIDE DEF T
  <2> QED BY <1>1, <1>3, <1>4, CoalesceLeads DEF same
<1> QED BY <1>5

(* EnqueueForDeliveryToApplication keeps the invariant, whichever of its   *)
(* cases applies.                                                          *)
LEMMA EnqueueInv ==
  ASSUME NEW a, AgentInv(a), NEW r \in Refs, a.heap[r] \in Bundles,
         NEW d \in EnqueueForDeliveryToApplication(a, r)
  PROVE  Delivers(d, a, r)
<1> DEFINE b == a.heap[r]
<1>1. CASE b.dst = a.eid
  <2>1. PICK c \in AdminRecord(a, b.content) : d = Remove(c, {r})
    BY <1>1 DEF EnqueueForDeliveryToApplication
  <2>2. Delivers(c, a, r)
    <3>1. CASE c = a
      BY <3>1 DEF Delivers
    <3>2. CASE c # a
      <4>1. b.content # AppData /\ b.content \in Contents
        BY <3>2 DEF AdminRecord, Bundles
      <4>2. b.content \in CustodySignals  BY <4>1 DEF Contents
      <4>3. PICK s \in GetBundle(a, b.content.src, b.content.id) :
              c = Acknowledge(a, s, b.content)
        BY <3>2 DEF AdminRecord
      <4>4. s \in a.store  BY DEF GetBundle, First, GetBundles
      <4> HIDE DEF b
      <4> QED BY <4>2, <4>3, <4>4, AcknowledgeInv
    <3> QED BY <3>1, <3>2
  <2>3. /\ AgentInv(d) /\ d.heap = c.heap /\ d.eid = c.eid
    BY <2>1, <2>2, RemoveInv DEF Delivers
  <2> QED BY <2>2, <2>3 DEF Delivers
<1>2. CASE b.dst # a.eid /\ b.frag
  <2>1. d \in Coalesce(a, r)
    BY <1>2 DEF EnqueueForDeliveryToApplication
  <2> QED BY <2>1, CoalesceInv
<1>3. CASE b.dst # a.eid /\ ~ b.frag
  <2>1. d = a  BY <1>3 DEF EnqueueForDeliveryToApplication
  <2> QED BY <2>1 DEF Delivers
<1> QED BY <1>1, <1>2, <1>3

(* SendCustodySignal keeps the invariant: the signal is sent like any      *)
(* bundle.                                                                 *)
LEMMA SignalInv ==
  ASSUME NEW a, AgentInv(a), NEW r \in Free(a), NEW b \in Bundles, NEW late \in BOOLEAN
  PROVE  AgentInv(SendCustodySignal(a, r, b, late))
<1> DEFINE m == [src |-> a.eid, dst |-> b.custEid, size |-> 1, life |-> b.life,
                 content |-> CustodySignal(b), custody |-> FALSE, prio |-> 0]
<1>1. a.eid \in Eids  BY DEF AgentInv, AgentState
<1>2. /\ b.custEid \in Eids /\ b.life \in Lifetimes /\ b.src \in Eids /\ b.id \in Nat
      /\ b.off \in Nat /\ b.size \in Nat
  BY DEF Bundles
<1>3. CustodySignal(b) \in CustodySignals  BY <1>2 DEF CustodySignal, CustodySignals
<1>4. m \in SendArguments  BY <1>1, <1>2, <1>3 DEF SendArguments, Contents
<1>5. SendCustodySignal(a, r, b, late) = Send(a, r, m, late)  BY DEF SendCustodySignal
<1> HIDE DEF m
<1> QED BY <1>4, <1>5, SendInv

(* Deliver keeps the invariant.                                            *)
LEMMA DeliverInv ==
  ASSUME NEW a, AgentInv(a), NEW r \in Refs, a.heap[r] \in Bundles,
         NEW r2 \in Free(a), NEW late \in BOOLEAN, NEW f \in Deliver(a, r, r2, late)
  PROVE  AgentInv(f)
<1> DEFINE enqueued == IF a.reg[a.heap[r].dst] = "active"
                       THEN EnqueueForDeliveryToApplication(a, r) ELSE {a}
<1>1. PICK d \in enqueued :
        f = IF d.heap[r].custody THEN SendCustodySignal(d, r2, d.heap[r], late) ELSE d
  BY DEF Deliver
<1>2. Delivers(d, a, r)
  <2>1. CASE d = a  BY <2>1 DEF Delivers
  <2>2. CASE d \in EnqueueForDeliveryToApplication(a, r)  BY <2>2, EnqueueInv
  <2> QED BY <2>1, <2>2
<1>3. r2 \in Free(d)  BY <1>2 DEF Delivers, Free
<1>4. AgentInv(SendCustodySignal(d, r2, d.heap[r], late))
  BY <1>2, <1>3, SignalInv DEF Delivers
<1> QED BY <1>1, <1>2, <1>4 DEF Delivers

(* ProcessBundle keeps the invariant for every bundle a CLA may hand over, *)
(* whether it is delivered or dispatched.                                  *)
LEMMA ProcessBundleInv ==
  ASSUME NEW a, AgentInv(a), NEW b \in Bundles, b.ret = {},
         NEW r \in Free(a), NEW late \in BOOLEAN, NEW r2 \in Free(a), r # r2, NEW late2 \in BOOLEAN,
         NEW f \in ProcessBundle(a, b, r, late, r2, late2)
  PROVE  AgentInv(f)
<1> DEFINE c == [b EXCEPT !.ret = @ \cup {DP}]
           s == Store(a, r, c, late)
<1>2. c \in Bundles /\ c.ret = {DP}  BY DEF Bundles, RetentionConstraints
<1> HIDE DEF c
<1>3. /\ s \in AgentState /\ s.lost = {} /\ s.heap[r] = c /\ r \notin s.retrans
      /\ r \in s.expiry <=> r \in s.store /\ c.life = "finite"
      /\ \A q \in Refs \ {r} : Owned(s, q) /\ s.heap[q] = a.heap[q]
  BY <1>2, StoreEffect
<1>4. r \in Refs /\ r2 \in Free(s)  BY <1>3 DEF Free
<1> HIDE DEF s
<1>5. CASE IsNodeMember(a, b.dst)
  <2>1. Owned(s, r)
    <3>1. CA \notin {DP} /\ {DP} \in Constraints  BY DEF Constraints, CA, DP
    <3> QED BY <1>2, <1>3, <3>1 DEF Owned
  <2>2. AgentInv(s)  BY <1>3, <2>1 DEF AgentInv
  <2>3. f \in Deliver(s, r, r2, late2)  BY <1>5 DEF ProcessBundle, s, c
  <2> QED BY <1>2, <1>3, <1>4, <2>2, <2>3, DeliverInv
<1>6. CASE ~ IsNodeMember(a, b.dst)
  <2>1. f = Forward(s, {r})  BY <1>6 DEF ProcessBundle, s, c
  <2>2. CA \notin {DP}  BY DEF CA, DP
  <2>3. Forwardable(s, r)  BY <1>2, <1>3, <2>2 DEF Forwardable
  <2>4. (\A q \in {r} : Forwardable(s, q)) /\ {r} \in SUBSET Refs
    BY <1>4, <2>3
  <2> QED BY <1>3, <2>1, <2>4, ForwardInv
<1> QED BY <1>5, <1>6

(* Registrations, readiness and routes are free to change: the invariant   *)
(* does not read them.                                                     *)
LEMMA ConfigurationInv ==
  ASSUME NEW a, AgentInv(a), NEW c \in AgentState,
         c.heap = a.heap, c.store = a.store, c.expiry = a.expiry,
         c.retrans = a.retrans, c.lost = a.lost
  PROVE  AgentInv(c)
<1>1. ASSUME NEW q \in Refs PROVE Owned(c, q)
  <2>1. Owned(a, q)  BY DEF AgentInv
  <2> QED BY <2>1 DEF Owned
<1> QED BY <1>1 DEF AgentInv

(* ClaReady keeps the invariant: all that it forwards waits for a CLA.     *)
LEMMA PendingInv ==
  ASSUME NEW a, AgentInv(a), NEW c \in Clas,
         NEW P, P = GetForwardPendingBundles(a, c)
  PROVE  AgentInv(Forward(a, P))
<1>1. P \in SUBSET Refs /\ \A r \in P : r \in a.store /\ FP \in a.heap[r].ret
  BY DEF GetForwardPendingBundles, AgentInv, AgentState
<1>2. ASSUME NEW r \in P PROVE Forwardable(a, r)
  <2>1. Owned(a, r)  BY <1>1 DEF AgentInv
  <2>2. FP \notin {CA}  BY DEF FP, CA
  <2> QED BY <1>1, <2>1, <2>2 DEF Owned, Forwardable
<1> QED BY <1>1, <1>2, ForwardInv DEF AgentInv

(* A retransmission keeps the invariant: its event has left the queue, and *)
(* Forward schedules the next one or marks the bundle for ClaReady.        *)
LEMMA RetransmitInv ==
  ASSUME NEW a, AgentInv(a), NEW r \in a.retrans,
         NEW d, d = [a EXCEPT !.retrans = @ \ {r}]
  PROVE  AgentInv(Forward(d, {r}))
<1>1. /\ d \in AgentState /\ d.lost = {} /\ d.heap = a.heap /\ d.store = a.store
      /\ d.expiry = a.expiry /\ d.retrans = a.retrans \ {r} /\ r \in Refs
  BY DEF AgentInv, AgentState
<1>2. Owned(a, r)  BY <1>1 DEF AgentInv
<1>3. Forwardable(d, r)  BY <1>1, <1>2 DEF Owned, Forwardable
<1>4. ASSUME NEW x \in Refs \ {r} PROVE Owned(d, x)
  <2>1. Owned(a, x)  BY DEF AgentInv
  <2> QED BY <1>1, <2>1 DEF Owned
<1>5. {r} \in SUBSET Refs /\ \A x \in {r} : Forwardable(d, x)  BY <1>1, <1>3
<1> QED BY <1>1, <1>4, <1>5, ForwardInv

----------------------------------------------------------------------------
(* What each handler does to each field.                                   *)

(* The fields that no handler changes.                                     *)
SameNode(d, a) ==
  /\ d.eid = a.eid /\ d.reg = a.reg
  /\ d.ready = a.ready /\ d.route = a.route

(* Object q is as it was, in the store, for the timers and for the CLAs.   *)
SameObject(d, a, q) ==
  /\ d.heap[q] = a.heap[q] /\ d.sent[q] = a.sent[q]
  /\ q \in d.store <=> q \in a.store
  /\ q \in d.retrans <=> q \in a.retrans

(* Quiet forgets what was sent and nothing else.                           *)
LEMMA QuietEffect ==
  ASSUME NEW a \in AgentState
  PROVE  /\ Quiet(a) \in AgentState /\ SameNode(Quiet(a), a)
         /\ Quiet(a).seq = a.seq /\ Quiet(a).heap = a.heap
         /\ Quiet(a).store = a.store /\ Quiet(a).expiry = a.expiry
         /\ Quiet(a).retrans = a.retrans /\ Quiet(a).lost = a.lost
         /\ \A r \in Refs : Quiet(a).sent[r] = <<>>
<1> DEFINE sent == [r \in Refs |-> <<>>]
<1>1. sent \in [Refs -> Seq(Bundles)] /\ \A r \in Refs : sent[r] = <<>>  OBVIOUS
<1>2. Quiet(a) = [a EXCEPT !.sent = sent]  BY DEF Quiet
<1> HIDE DEF sent
<1> QED BY <1>1, <1>2 DEF AgentState, SameNode

(* Collect forgets the objects out of reach and nothing else.              *)
LEMMA CollectEffect ==
  ASSUME NEW a \in AgentState
  PROVE  /\ Collect(a) \in AgentState /\ SameNode(Collect(a), a)
         /\ Collect(a).seq = a.seq /\ Collect(a).store = a.store
         /\ Collect(a).expiry = a.expiry /\ Collect(a).retrans = a.retrans
         /\ Collect(a).lost = a.lost /\ Collect(a).sent = a.sent
         /\ \A r \in a.store \cup a.retrans : Collect(a).heap[r] = a.heap[r]
BY DEF AgentState, Collect, Reachable, SameNode

(* Remove takes objects out of the store and cancels their events.         *)
LEMMA RemoveEffect ==
  ASSUME NEW a \in AgentState, NEW R \in SUBSET Refs
  PROVE  /\ Remove(a, R) \in AgentState /\ SameNode(Remove(a, R), a)
         /\ Remove(a, R).seq = a.seq /\ Remove(a, R).heap = a.heap
         /\ Remove(a, R).store = a.store \ R /\ Remove(a, R).expiry = a.expiry \ R
         /\ Remove(a, R).retrans = a.retrans \ R
         /\ Remove(a, R).sent = a.sent
BY DEF AgentState, Remove, SameNode

(* Store adds one object, if it is not late.                               *)
LEMMA StoreFields ==
  ASSUME NEW a \in AgentState, NEW r \in Refs, NEW b \in Bundles, NEW late \in BOOLEAN,
         NEW s, s = Store(a, r, b, late)
  PROVE  /\ s \in AgentState /\ SameNode(s, a)
         /\ s.seq = a.seq /\ s.sent = a.sent
         /\ s.retrans = a.retrans
         /\ s.heap[r] = b
         /\ \A q \in Refs \ {r} : SameObject(s, a, q)
         /\ late /\ b.life = "finite" => s.store = a.store
         /\ ~ (late /\ b.life = "finite") => s.store = a.store \cup {r}
BY DEF AgentState, Store, SameNode, SameObject

(* What Forward does with a bundle it can send, and with one it cannot.    *)
SentOut(f, a, q) ==
  /\ f.heap[q] = Forwarded(a.heap[q])
  /\ f.sent[q] = Transmission(a.heap[q])
  /\ q \in f.store <=> q \in a.store /\ Forwarded(a.heap[q]).ret # {}
  /\ q \in f.retrans <=>
       /\ q \in a.retrans \/ a.heap[q].custody
       /\ Forwarded(a.heap[q]).ret # {}

KeptBack(f, a, q) ==
  /\ f.heap[q] = Contraindicated(a.heap[q])
  /\ f.sent[q] = a.sent[q]
  /\ q \in f.store <=> q \in a.store
  /\ q \in f.retrans <=> q \in a.retrans

(* Forward hands over what can be sent, marks the rest, and removes what   *)
(* has no constraint left.                                                 *)
LEMMA ForwardEffect ==
  ASSUME NEW a \in AgentState, NEW R \in SUBSET Refs,
         \A r \in R : a.heap[r] \in Bundles, NEW f, f = Forward(a, R)
  PROVE  /\ f \in AgentState /\ SameNode(f, a) /\ f.seq = a.seq
         /\ \A q \in Refs \ R : SameObject(f, a, q)
         /\ \A q \in R : CanSend(a, q) => SentOut(f, a, q)
         /\ \A q \in R : ~ CanSend(a, q) => KeptBack(f, a, q)
<1> DEFINE go   == {r \in R : CanSend(a, r)}
           done == {r \in go : Forwarded(a.heap[r]).ret = {}}
           heap == [r \in Refs |-> IF r \in go THEN Forwarded(a.heap[r])
                                   ELSE IF r \in R THEN Contraindicated(a.heap[r])
                                   ELSE a.heap[r]]
           sent == [r \in Refs |-> IF r \in go THEN Transmission(a.heap[r]) ELSE a.sent[r]]
           after == [a EXCEPT !.heap = heap, !.retrans = @ \cup Armed(a, go),
                              !.lost = @ \cup (Armed(a, go) \cap a.retrans),
                              !.sent = sent]
<1>1. f = Remove(after, done)  BY DEF Forward, AgentState
<1>2. go \subseteq Refs /\ done \subseteq go /\ Armed(a, go) \subseteq go
  BY DEF Armed
<1>3. heap \in [Refs -> Bundles \cup {NoBundle}]
  BY ForwardedTyped, ContraindicatedTyped DEF AgentState
<1>4. sent \in [Refs -> Seq(Bundles)]
  BY TransmissionTyped DEF AgentState
<1>5. \A q \in Refs : /\ q \in go <=> q \in R /\ CanSend(a, q)
                      /\ q \in done <=> q \in go /\ Forwarded(a.heap[q]).ret = {}
                      /\ q \in Armed(a, go) <=> q \in go /\ a.heap[q].custody
  BY DEF Armed
<1>6. \A q \in Refs : /\ q \in go => heap[q] = Forwarded(a.heap[q])
                      /\ q \in R \ go => heap[q] = Contraindicated(a.heap[q])
                      /\ q \notin R => heap[q] = a.heap[q]
                      /\ q \in go => sent[q] = Transmission(a.heap[q])
                      /\ q \notin go => sent[q] = a.sent[q]
  OBVIOUS
<1> HIDE DEF go, done, heap, sent
<1>7. /\ after \in AgentState /\ SameNode(after, a) /\ after.seq = a.seq
      /\ after.heap = heap /\ after.sent = sent /\ after.store = a.store
      /\ after.retrans = a.retrans \cup Armed(a, go)
  BY <1>2, <1>3, <1>4 DEF AgentState, SameNode
<1>8. done \in SUBSET Refs  BY <1>2
<1> HIDE DEF after
<1>9. /\ f \in AgentState /\ SameNode(f, a) /\ f.seq = a.seq
      /\ f.heap = heap /\ f.sent = sent /\ f.store = a.store \ done
      /\ f.retrans = (a.retrans \cup Armed(a, go)) \ done
  BY <1>1, <1>7, <1>8, RemoveEffect DEF SameNode
<1>10. \A q \in Refs \ R : SameObject(f, a, q)
  BY <1>2, <1>5, <1>6, <1>9 DEF SameObject
<1>11. ASSUME NEW q \in R, CanSend(a, q) PROVE SentOut(f, a, q)
  BY <1>5, <1>6, <1>9, <1>11 DEF SentOut
<1>12. ASSUME NEW q \in R, ~ CanSend(a, q) PROVE KeptBack(f, a, q)
  BY <1>5, <1>6, <1>9, <1>12 DEF KeptBack
<1> QED BY <1>9, <1>10, <1>11, <1>12

(* The bundle that Send makes is a bundle.                                 *)
LEMMA NewBundleTyped ==
  ASSUME NEW a \in AgentState, NEW m \in SendArguments
  PROVE  NewBundle(a, m) \in Bundles
<1>1. a.eid \in Eids /\ a.seq \in Nat /\ defaultEid \in Eids
  BY BundleAssumption DEF AgentState
<1>2. /\ m.src \in Eids /\ m.dst \in Eids /\ m.size \in Nat /\ m.content \in Contents
      /\ m.life \in Lifetimes /\ m.custody \in BOOLEAN /\ m.prio \in Nat
  BY DEF SendArguments
<1>3. CASE m.custody = TRUE
  BY <1>1, <1>2, <1>3 DEF NewBundle, Bundles, Acks, RetentionConstraints
<1>4. CASE m.custody = FALSE
  BY <1>1, <1>2, <1>4 DEF NewBundle, Bundles, Acks, RetentionConstraints
<1> QED BY <1>2, <1>3, <1>4

(* Send makes one bundle, and forwards it or marks it for ClaReady.        *)
LEMMA SendEffect ==
  ASSUME NEW a \in AgentState, NEW r \in Refs, r \notin a.store \cup a.retrans,
         NEW m \in SendArguments, NEW late \in BOOLEAN,
         m.src = defaultEid \/ IsNodeMember(a, m.src),
         NEW f, f = Send(a, r, m, late), NEW b, b = NewBundle(a, m)
  PROVE  /\ f \in AgentState /\ SameNode(f, a) /\ f.seq = a.seq + 1
         /\ \A q \in Refs \ {r} : SameObject(f, a, q)
         /\ \/ /\ f.heap[r] = Forwarded(b) /\ f.sent[r] = Transmission(b)
               /\ OutgoingCla(a, b.dst) # NoCla
               /\ r \in f.store <=> ~ (late /\ b.life = "finite") /\ Forwarded(b).ret # {}
               /\ r \in f.retrans <=> b.custody /\ Forwarded(b).ret # {}
            \/ /\ f.heap[r] = Contraindicated(b) /\ f.sent[r] = a.sent[r]
               /\ r \in f.store <=> ~ (late /\ b.life = "finite")
               /\ r \notin f.retrans
<1> DEFINE n == [a EXCEPT !.seq = @ + 1]
           s == Store(n, r, b, late)
<1>1. b \in Bundles  BY NewBundleTyped
<1>2. /\ n \in AgentState /\ SameNode(n, a) /\ n.seq = a.seq + 1
      /\ n.heap = a.heap /\ n.store = a.store /\ n.retrans = a.retrans /\ n.sent = a.sent
  <2>1. a.seq + 1 \in Nat  BY DEF AgentState
  <2> QED BY <2>1 DEF AgentState, SameNode
<1>3. f = Forward(s, {r})  BY DEF Send
<1> HIDE DEF n
<1>4. /\ s \in AgentState /\ SameNode(s, n) /\ s.seq = n.seq /\ s.sent = n.sent
      /\ s.retrans = n.retrans /\ s.heap[r] = b
      /\ \A q \in Refs \ {r} : SameObject(s, n, q)
      /\ late /\ b.life = "finite" => s.store = n.store
      /\ ~ (late /\ b.life = "finite") => s.store = n.store \cup {r}
  BY <1>1, <1>2, StoreFields
<1> HIDE DEF s
<1>5. /\ f \in AgentState /\ SameNode(f, s) /\ f.seq = s.seq
      /\ \A q \in Refs \ {r} : SameObject(f, s, q)
      /\ CanSend(s, r) => SentOut(f, s, r)
      /\ ~ CanSend(s, r) => KeptBack(f, s, r)
  <2>1. /\ s \in AgentState /\ s.heap[r] = b
        /\ {r} \in SUBSET Refs /\ \A q \in {r} : s.heap[q] \in Bundles
    BY <1>1, <1>4
  <2> QED BY <1>3, <2>1, ForwardEffect
<1>6. SameNode(f, a)  BY <1>2, <1>4, <1>5 DEF SameNode
<1>7. \A q \in Refs \ {r} : SameObject(f, a, q)
  BY <1>2, <1>4, <1>5 DEF SameObject
<1>8. CanSend(s, r) => OutgoingCla(a, b.dst) # NoCla
  BY <1>2, <1>4 DEF CanSend, OutgoingCla, SameNode
<1>9. r \in s.store <=> ~ (late /\ b.life = "finite")  BY <1>2, <1>4
<1>10. r \notin s.retrans /\ s.sent = a.sent /\ f.seq = a.seq + 1
  BY <1>2, <1>4, <1>5
<1> QED BY <1>4, <1>5, <1>6, <1>7, <1>8, <1>9, <1>10 DEF SentOut, KeptBack

(* What an agent puts into a custody signal for bundle b.                  *)
SignalOf(a, b) ==
  [src |-> a.eid, dst |-> b.custEid, size |-> 1, life |-> b.life,
   content |-> CustodySignal(b), custody |-> FALSE, prio |-> 0]

LEMMA SignalTyped ==
  ASSUME NEW a \in AgentState, NEW b \in Bundles
  PROVE  SignalOf(a, b) \in SendArguments
<1>1. a.eid \in Eids  BY DEF AgentState
<1>2. /\ b.custEid \in Eids /\ b.life \in Lifetimes /\ b.src \in Eids /\ b.id \in Nat
      /\ b.off \in Nat /\ b.size \in Nat
  BY DEF Bundles
<1>3. CustodySignal(b) \in CustodySignals  BY <1>2 DEF CustodySignal, CustodySignals
<1> QED BY <1>1, <1>2, <1>3 DEF SendArguments, Contents, SignalOf

(* An acknowledgement changes the acks of one bundle, and removes it when  *)
(* they are complete.                                                      *)
Acked(b, signal) ==
  [b EXCEPT !.acks = MergeAck(@, <<signal.off, signal.off + signal.len>>)]

LEMMA AcknowledgeEffect ==
  ASSUME NEW a \in AgentState, NEW s \in Refs, a.heap[s] \in Bundles,
         NEW signal \in CustodySignals, NEW d, d = Acknowledge(a, s, signal)
  PROVE  /\ d \in AgentState /\ SameNode(d, a) /\ d.seq = a.seq /\ d.sent = a.sent
         /\ Acked(a.heap[s], signal) \in Bundles
         /\ d.heap[s] = Acked(a.heap[s], signal)
         /\ \A q \in Refs \ {s} : SameObject(d, a, q)
         /\ d.store \subseteq a.store /\ d.retrans \subseteq a.retrans
         /\ s \in a.store \ d.store => FullyAcked(d.heap[s])
<1> DEFINE ack == <<signal.off, signal.off + signal.len>>
           b == Acked(a.heap[s], signal)
           c == [a EXCEPT !.heap[s] = b]
<1>1. ack \in Nat \X Nat  BY DEF CustodySignals
<1>2. MergeAck(a.heap[s].acks, ack) \in Acks
  <2>1. a.heap[s].acks \in Acks  BY DEF Bundles
  <2> HIDE DEF ack
  <2> QED BY <1>1, <2>1, MergeAckTyped
<1>3. b \in Bundles  BY <1>2 DEF Acked, Bundles
<1>4. c = [a EXCEPT !.heap[s].acks = MergeAck(@, ack)]
  BY DEF Acked, AgentState
<1>5. d = IF FullyAcked(c.heap[s]) THEN Remove(c, {s}) ELSE c
  BY <1>4 DEF Acknowledge
<1> HIDE DEF b
<1>6. /\ c \in AgentState /\ SameNode(c, a) /\ c.seq = a.seq /\ c.sent = a.sent
      /\ c.heap[s] = b /\ c.store = a.store /\ c.retrans = a.retrans
      /\ \A q \in Refs \ {s} : c.heap[q] = a.heap[q]
  BY <1>3 DEF AgentState, SameNode
<1> HIDE DEF c
<1>7. CASE FullyAcked(c.heap[s])
  <2>1. /\ d \in AgentState /\ SameNode(d, c) /\ d.seq = c.seq /\ d.heap = c.heap
        /\ d.store = c.store \ {s} /\ d.retrans = c.retrans \ {s} /\ d.sent = c.sent
    <3>1. d = Remove(c, {s})  BY <1>5, <1>7
    <3> QED BY <1>6, <3>1, RemoveEffect
  <2> QED BY <1>3, <1>6, <1>7, <2>1 DEF SameNode, SameObject, b
<1>8. CASE ~ FullyAcked(c.heap[s])
  <2>1. d = c  BY <1>5, <1>8
  <2> QED BY <1>3, <1>6, <2>1 DEF SameObject, b
<1> QED BY <1>7, <1>8

(* Taking in another bundle changes the size and the fragment flag of one, *)
(* and removes the other.                                                  *)
LEMMA GrownEffect ==
  ASSUME NEW d \in AgentState, NEW x \in Refs, NEW y \in Refs,
         d.heap[x] \in Bundles, d.heap[y] \in Bundles,
         NEW v, v = Grown(d, x, y)
  PROVE  /\ v \in AgentState /\ SameNode(v, d) /\ v.seq = d.seq /\ v.sent = d.sent
         /\ v.heap[x] = Resized(d.heap[x], d.heap[x].size + d.heap[y].size)
         /\ v.heap[x] \in Bundles
         /\ \A q \in Refs \ {x} : v.heap[q] = d.heap[q]
         /\ v.store = d.store \ {y} /\ v.retrans = d.retrans \ {y}
<1> DEFINE n == d.heap[x].size + d.heap[y].size
           c == Resized(d.heap[x], n)
           g == [d EXCEPT !.heap[x] = c]
<1>1. n \in Nat
  BY DEF Bundles
<1> HIDE DEF n
<1>2. c \in Bundles
  BY <1>1, ResizedTyped
<1>3. v = Remove(g, {y})
  BY DEF Grown, n
<1> HIDE DEF c
<1>4. /\ g \in AgentState /\ SameNode(g, d) /\ g.seq = d.seq /\ g.sent = d.sent
      /\ g.heap[x] = c /\ \A q \in Refs \ {x} : g.heap[q] = d.heap[q]
      /\ g.store = d.store /\ g.retrans = d.retrans
  BY <1>2 DEF AgentState, SameNode
<1> HIDE DEF g
<1>5. /\ v \in AgentState /\ SameNode(v, g) /\ v.seq = g.seq /\ v.heap = g.heap
      /\ v.store = g.store \ {y} /\ v.retrans = g.retrans \ {y} /\ v.sent = g.sent
  BY <1>3, <1>4, RemoveEffect
<1>6. SameNode(v, d)
  BY <1>4, <1>5 DEF SameNode
<1> QED BY <1>2, <1>4, <1>5, <1>6 DEF c, n

----------------------------------------------------------------------------
(* What is transmitted.                                                    *)

(* The number of pieces, as Forward rounds it up.                          *)
RoundedUp(s, B, n) ==
  /\ n \in Nat /\ s <= B * n /\ B * n <= s + B - 1
  /\ s > 0 => n > 0
  /\ s > B <=> n > 1

LEMMA PiecesBound ==
  ASSUME NEW s \in Nat, NEW B \in Nat \ {0}, NEW n, n = (s + B - 1) \div B
  PROVE  RoundedUp(s, B, n)
<1>1. n \in Nat /\ B * n <= s + B - 1 /\ s + B - 1 < B * n + B  OBVIOUS
<1>2. s <= B * n  BY <1>1
<1>3. s > 0 => n > 0
  <2>1. CASE n = 0  BY <1>2, <2>1
  <2>2. CASE n > 0  BY <2>2
  <2> QED BY <1>1, <2>1, <2>2
<1>4. s > B <=> n > 1
  <2>1. CASE n <= 1
    <3>1. B * n <= B  BY <1>1, <2>1
    <3> QED BY <1>1, <1>2, <2>1, <3>1
  <2>2. CASE n > 1
    <3>1. B * 2 <= B * n  BY <1>1, <2>2
    <3> QED BY <1>1, <2>2, <3>1
  <2> QED BY <1>1, <2>1, <2>2
<1> QED BY <1>1, <1>2, <1>3, <1>4 DEF RoundedUp

(* Each piece of a transmission starts where those before it end, and      *)
(* carries one to BundleSize bytes; the last one ends with the bundle.     *)
LEMMA PieceBounds ==
  ASSUME NEW b \in Bundles, NEW k \in 1..Pieces(b)
  PROVE  /\ PieceSize(b, k) \in 1..BundleSize
         /\ PieceOffset(b, k) = (k - 1) * BundleSize
         /\ k < Pieces(b) => PieceSize(b, k) = BundleSize
         /\ PieceOffset(b, k) + PieceSize(b, k) <= b.size
         /\ k = Pieces(b) => PieceOffset(b, k) + PieceSize(b, k) = b.size
         /\ MustFragment(b) <=> Pieces(b) > 1
<1> DEFINE s == b.size
           B == BundleSize
           n == Pieces(b)
<1>1. s \in Nat /\ B \in Nat \ {0}  BY BundleAssumption DEF Bundles
<1>2. n = (s + B - 1) \div B  BY DEF Pieces
<1>3. PieceSize(b, k) = IF k * B <= s THEN B ELSE s - (k - 1) * B  BY DEF PieceSize
<1>4. PieceOffset(b, k) = IF s > B THEN (k - 1) * B ELSE 0
  BY DEF PieceOffset, MustFragment
<1>5. MustFragment(b) <=> s > B  BY DEF MustFragment
<1>6. k \in 1..n  OBVIOUS
<1> HIDE DEF s, B, n
<1>7. /\ n \in Nat /\ s <= B * n /\ B * n <= s + B - 1
      /\ s > B <=> n > 1
  <2>1. RoundedUp(s, B, n)  BY <1>1, <1>2, PiecesBound, Zenon
  <2> QED BY <2>1 DEF RoundedUp
<1>8. k \in Nat /\ k >= 1 /\ k <= n  BY <1>6, <1>7
<1>9. PieceOffset(b, k) = (k - 1) * B
  <2>1. CASE s > B  BY <1>4, <2>1
  <2>2. CASE ~ s > B
    <3>1. k = 1  BY <1>7, <1>8, <2>2
    <3> QED BY <1>1, <1>4, <2>2, <3>1
  <2> QED BY <2>1, <2>2
<1>10. k * B = (k - 1) * B + B /\ (k - 1) * B \in Nat
  BY <1>1, <1>8
<1>11. CASE k < n
  <2>1. B * (k + 1) <= B * n  BY <1>1, <1>7, <1>8, <1>11
  <2>2. k * B <= s  BY <1>1, <1>7, <1>8, <2>1
  <2>3. PieceSize(b, k) = B  BY <1>3, <2>2
  <2> QED BY <1>1, <1>5, <1>7, <1>8, <1>9, <1>10, <1>11, <2>2, <2>3 DEF n, B, s
<1>12. CASE k = n
  <2>1. k * B = B * n  BY <1>1, <1>8, <1>12
  <2>2. (k - 1) * B \in Nat  BY <1>10
  <2>3. CASE k * B <= s
    <3>1. k * B = s /\ PieceSize(b, k) = B  BY <1>1, <1>3, <1>7, <2>1, <2>3
    <3> QED BY <1>1, <1>5, <1>7, <1>9, <1>10, <1>12, <2>2, <3>1 DEF n, B, s
  <2>4. CASE ~ k * B <= s
    <3>1. PieceSize(b, k) = s - (k - 1) * B  BY <1>3, <2>4
    <3> QED BY <1>1, <1>5, <1>7, <1>9, <1>10, <1>12, <2>1, <2>2, <2>4, <3>1 DEF n, B, s
  <2> QED BY <2>3, <2>4
<1>13. k < n \/ k = n  BY <1>7, <1>8
<1> QED BY <1>7, <1>8, <1>11, <1>12, <1>13

(* The pieces of a bundle that holds a whole ADU are as a CLA may hand     *)
(* them over at the other end.                                             *)
LEMMA PieceIsReceived ==
  ASSUME NEW b \in Bundles, b.size = b.aduLen, NEW k \in 1..Pieces(b),
         NEW p, p = Piece(b, k)
  PROVE  /\ p \in Bundles /\ IsReceived(p)
         /\ p.src = b.src /\ p.dst = b.dst /\ p.id = b.id /\ p.aduLen = b.aduLen
         /\ p.custody = b.custody /\ p.custEid = b.custEid /\ p.content = b.content
         /\ p.life = b.life
<1>1. /\ PieceSize(b, k) \in 1..BundleSize
      /\ PieceOffset(b, k) + PieceSize(b, k) <= b.size
      /\ k = Pieces(b) => PieceOffset(b, k) + PieceSize(b, k) = b.size
      /\ PieceOffset(b, k) = (k - 1) * BundleSize
      /\ MustFragment(b) <=> Pieces(b) > 1
  BY PieceBounds
<1>2. b.size \in Nat /\ b.aduLen \in Nat /\ BundleSize \in Nat \ {0}
  BY BundleAssumption DEF Bundles
<1>3. p \in Bundles  BY PieceTyped
<1>4. /\ p.src = b.src /\ p.dst = b.dst /\ p.id = b.id /\ p.aduLen = b.aduLen
      /\ p.custody = b.custody /\ p.custEid = b.custEid /\ p.content = b.content
      /\ p.life = b.life /\ p.ret = {} /\ p.acks = NoAcks
      /\ p.size = PieceSize(b, k) /\ p.off = PieceOffset(b, k) /\ p.frag = MustFragment(b)
  BY DEF Piece, Bundles
<1>5. p.frag = (p.size < p.aduLen)
  <2>1. CASE b.size > BundleSize  BY <1>1, <1>2, <1>4, <2>1 DEF MustFragment
  <2>2. CASE ~ b.size > BundleSize
    <3>1. Pieces(b) <= 1 /\ Pieces(b) \in Int
      BY <1>1, <1>2, <2>2 DEF MustFragment, Pieces
    <3>2. k = Pieces(b) /\ k = 1  BY <3>1
    <3>3. p.off = 0 /\ p.off + p.size = b.size  BY <1>1, <1>2, <1>4, <3>2
    <3> QED BY <1>1, <1>2, <1>4, <2>2, <3>3 DEF MustFragment
  <2> QED BY <2>1, <2>2
<1> QED BY <1>1, <1>2, <1>3, <1>4, <1>5 DEF IsReceived

(* What neither forwarding nor its refusal changes in a bundle.            *)
SameAdu(c, b) ==
  /\ c.src = b.src /\ c.dst = b.dst /\ c.id = b.id /\ c.life = b.life
  /\ c.custody = b.custody /\ c.custEid = b.custEid /\ c.aduLen = b.aduLen
  /\ c.size = b.size /\ c.content = b.content /\ c.acks = b.acks

(* Forward leaves alone what a bundle is of.                               *)
LEMMA ForwardedAdu ==
  ASSUME NEW b \in Bundles
  PROVE  SameAdu(Forwarded(b), b) /\ SameAdu(Contraindicated(b), b)
BY DEF SameAdu, Forwarded, Contraindicated, AfterTransmission, Bundles

=============================================================================
