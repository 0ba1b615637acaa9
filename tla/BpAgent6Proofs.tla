--------------------------- MODULE BpAgent6Proofs ---------------------------
(***************************************************************************)
(* Proofs about BpAgent6, for every value of the constants.                *)
(***************************************************************************)
EXTENDS BpAgent6, BpHandlers6Proofs

----------------------------------------------------------------------------
(* What is sent, and what is split.                                        *)

(* A bundle that waits for a CLA or is in custody holds a whole ADU: only  *)
(* what waits for an application is a fragment.                            *)
Unsplit(a, r) ==
  r \in a.store \cup a.retrans /\ (FP \in a.heap[r].ret \/ CA \in a.heap[r].ret)
    => a.heap[r].size = a.heap[r].aduLen

(* What was handed to a CLA are the pieces of a whole ADU.                 *)
SentWhole(a, r) ==
  \/ a.sent[r] = <<>>
  \/ \E b \in Bundles : b.size = b.aduLen /\ a.sent[r] = Transmission(b)

(* The strengthening of TransmissionIsWhole that the actions preserve. It  *)
(* is about objects as AgentInv is, and like it stated of agent states.    *)
WholeInv(a) ==
  /\ a \in AgentState /\ a.eid = Self
  /\ \A r \in Refs : Unsplit(a, r) /\ SentWhole(a, r)

(* Forward cuts whole ADUs, and leaves them whole in the store.            *)
LEMMA ForwardWhole ==
  ASSUME NEW a \in AgentState, a.eid = Self, NEW R \in SUBSET Refs,
         \A r \in R : a.heap[r] \in Bundles /\ a.heap[r].size = a.heap[r].aduLen,
         \A r \in Refs \ R : Unsplit(a, r),
         \A r \in Refs : SentWhole(a, r)
  PROVE  WholeInv(Forward(a, R))
<1> DEFINE f == Forward(a, R)
<1>1. /\ f \in AgentState /\ SameNode(f, a)
      /\ \A q \in Refs \ R : SameObject(f, a, q)
      /\ \A q \in R : CanSend(a, q) => SentOut(f, a, q)
      /\ \A q \in R : ~ CanSend(a, q) => KeptBack(f, a, q)
  BY ForwardEffect
<1> HIDE DEF f
<1>2. ASSUME NEW r \in Refs \ R PROVE Unsplit(f, r) /\ SentWhole(f, r)
  BY <1>1, <1>2 DEF SameObject, Unsplit, SentWhole
<1>3. ASSUME NEW r \in R, CanSend(a, r) PROVE Unsplit(f, r) /\ SentWhole(f, r)
  <2>1. SameAdu(f.heap[r], a.heap[r])  BY <1>1, <1>3, ForwardedAdu DEF SentOut
  <2> QED BY <1>1, <1>3, <2>1 DEF SameAdu, Unsplit, SentWhole, SentOut
<1>4. ASSUME NEW r \in R, ~ CanSend(a, r) PROVE Unsplit(f, r) /\ SentWhole(f, r)
  <2>1. SameAdu(f.heap[r], a.heap[r])  BY <1>1, <1>4, ForwardedAdu DEF KeptBack
  <2> QED BY <1>1, <1>4, <2>1 DEF SameAdu, Unsplit, SentWhole, KeptBack
<1>5. f.eid = Self  BY <1>1 DEF SameNode
<1>6. \A r \in Refs : Unsplit(f, r) /\ SentWhole(f, r)  BY <1>2, <1>3, <1>4
<1>7. WholeInv(f)  BY <1>1, <1>5, <1>6 DEF WholeInv
<1> QED BY <1>7 DEF f

(* Removing objects and forgetting those out of reach keeps the rest.      *)
LEMMA RemoveWhole ==
  ASSUME NEW a, WholeInv(a), NEW R \in SUBSET Refs
  PROVE  WholeInv(Remove(a, R))
<1>1. a \in AgentState  BY DEF WholeInv
<1> QED BY <1>1, RemoveEffect DEF WholeInv, SameNode, Unsplit, SentWhole

(* Collecting what nothing refers to preserves the invariant.              *)
LEMMA CollectWhole ==
  ASSUME NEW a, WholeInv(a)
  PROVE  WholeInv(Collect(a))
<1>1. a \in AgentState  BY DEF WholeInv
<1> QED BY <1>1, CollectEffect DEF WholeInv, SameNode, Unsplit, SentWhole

(* So does a step that changes neither bundles nor what is sent.           *)
LEMMA QuietWhole ==
  ASSUME NEW a, WholeInv(a)
  PROVE  WholeInv(Quiet(a))
<1>1. a \in AgentState  BY DEF WholeInv
<1> QED BY <1>1, QuietEffect DEF WholeInv, SameNode, Unsplit, SentWhole

(* Send makes a whole ADU.                                                 *)
LEMMA SendWhole ==
  ASSUME NEW a, WholeInv(a), NEW r \in Refs, r \notin a.store \cup a.retrans,
         NEW m \in SendArguments, NEW late \in BOOLEAN
  PROVE  WholeInv(Send(a, r, m, late))
<1> DEFINE f == Send(a, r, m, late)
           b == NewBundle(a, m)
<1>1. a \in AgentState  BY DEF WholeInv
<1>2. CASE m.src # defaultEid /\ ~ IsNodeMember(a, m.src)
  BY <1>2 DEF Send
<1>3. CASE m.src = defaultEid \/ IsNodeMember(a, m.src)
  <2>1. b \in Bundles  BY <1>1, NewBundleTyped
  <2>2. b.size = b.aduLen  BY DEF NewBundle
  <2> HIDE DEF b, f
  <2>3. /\ f \in AgentState /\ SameNode(f, a)
        /\ \A q \in Refs \ {r} : SameObject(f, a, q)
        /\ \/ f.heap[r] = Forwarded(b) /\ f.sent[r] = Transmission(b)
           \/ f.heap[r] = Contraindicated(b) /\ f.sent[r] = a.sent[r]
    BY <1>1, <1>3, SendEffect DEF f, b
  <2>4. SameAdu(f.heap[r], b)  BY <2>1, <2>3, ForwardedAdu
  <2>5. Unsplit(f, r)  BY <2>2, <2>4 DEF SameAdu, Unsplit
  <2>6. SentWhole(a, r)  BY DEF WholeInv
  <2>7. SentWhole(f, r)  BY <2>1, <2>2, <2>3, <2>6 DEF SentWhole
  <2>8. ASSUME NEW q \in Refs \ {r} PROVE Unsplit(f, q) /\ SentWhole(f, q)
    BY <2>3 DEF WholeInv, SameObject, Unsplit, SentWhole
  <2>9. WholeInv(f)  BY <2>3, <2>5, <2>7, <2>8 DEF WholeInv, SameNode
  <2> QED BY <2>9 DEF f
<1> QED BY <1>2, <1>3

(* An acknowledgement that completes those held covers every byte, in      *)
(* whatever order the pieces were acknowledged.                            *)
LEMMA FullAck ==
  ASSUME NEW b \in Bundles, NEW signal \in CustodySignals, FullyAcked(Acked(b, signal))
  PROVE  Acknowledged(b, signal) = 0..(b.aduLen - 1)
<1> DEFINE from == signal.off
           to == signal.off + signal.len
<1>1. from \in Nat /\ to \in Nat /\ b.aduLen \in Nat /\ b.acks \in Acks
  BY DEF CustodySignals, Bundles
<1>2. MergeAck(b.acks, <<from, to>>) = <<0, b.aduLen>>
  BY DEF FullyAcked, Acked, Bundles
<1>3. \A i \in 0..(b.aduLen - 1) :
        \/ b.acks # NoAcks /\ b.acks[1] <= i /\ i < b.acks[2]
        \/ from <= i /\ i < to
  <2>1. CASE b.acks = NoAcks
    BY <1>1, <1>2, <2>1 DEF MergeAck
  <2>2. CASE b.acks # NoAcks
    <3>1. b.acks \in Nat \X Nat  BY <1>1, <2>2 DEF Acks
    <3>2. /\ (IF to = b.acks[1] THEN from ELSE b.acks[1]) = 0
          /\ (IF b.acks[2] = from THEN to ELSE b.acks[2]) = b.aduLen
      BY <1>2, <2>2, <3>1 DEF MergeAck
    <3> HIDE DEF from, to
    <3> QED BY <1>1, <2>2, <3>1, <3>2
  <2> QED BY <2>1, <2>2
<1> QED BY <1>3 DEF Acknowledged

(* A bundle in custody leaves the store, when bundle b is delivered, if b  *)
(* is a signal that completes its acks, or if b is a fragment of its ADU   *)
(* and joins it with all that lies between them.                           *)
Completes(a, b, s) ==
  /\ b.dst = a.eid /\ b.content # AppData
  /\ b.content.src = a.heap[s].src /\ b.content.id = a.heap[s].id
  /\ Acknowledged(a.heap[s], b.content) = 0..(a.heap[s].aduLen - 1)

Reaches(a, b, s) ==
  /\ b.frag
  /\ b.src = a.heap[s].src /\ b.id = a.heap[s].id
  /\ End(b) <= a.heap[s].off
  /\ \A i \in End(b) .. (a.heap[s].off - 1) :
       \E q \in GetBundles(a, b.src, b.id) : Holds(a.heap[q], i)

(* On the way from a to d no other bundle in custody has left the store,   *)
(* but for the one delivered, at r.                                        *)
CustodyKept(d, a, r) ==
  \A s \in a.store \ {r} :
    CA \in a.heap[s].ret =>
      s \in d.store \/ Completes(a, a.heap[r], s) \/ Reaches(a, a.heap[r], s)

(* The stored bundles of b's ADU agree with b on its length.               *)
OneLength(a, b) ==
  \A s \in GetBundles(a, b.src, b.id) : a.heap[s].aduLen = b.aduLen

(* What the rounds of the loop over the bundles of an ADU keep: they grow  *)
(* over bytes that are there, and only those that wait for the application *)
(* do.                                                                     *)
Present(a, r, i) ==
  \/ Holds(a.heap[r], i)
  \/ \E q \in GetBundles(a, a.heap[r].src, a.heap[r].id) : Holds(a.heap[q], i)

Joined(x, a, r, q) ==
  /\ x.heap[q] \in Bundles
  /\ x.heap[q].ret = a.heap[q].ret /\ x.heap[q].off = a.heap[q].off
  /\ x.heap[q].aduLen = a.heap[q].aduLen /\ x.heap[q].size >= a.heap[q].size
  /\ FP \in a.heap[q].ret \/ CA \in a.heap[q].ret => x.heap[q].size = a.heap[q].size
  /\ \A i \in Nat : Holds(x.heap[q], i) => Present(a, r, i)

Joining(x, a, r, same) ==
  /\ x \in AgentState /\ SameNode(x, a) /\ x.sent = a.sent
  /\ x.store \subseteq a.store /\ x.retrans \subseteq a.retrans
  /\ \A q \in Refs \ same : x.heap[q] = a.heap[q]
  /\ \A q \in same : Joined(x, a, r, q)
  /\ CustodyKept(x, a, r)

(* So does the round in which y takes in z.                                *)
LEMMA JoiningGrows ==
  ASSUME NEW a \in AgentState, NEW r \in Refs, NEW same \in SUBSET Refs,
         NEW x, Joining(x, a, r, same), NEW y \in same, NEW z \in same,
         End(x.heap[y]) = x.heap[z].off,
         FP \notin a.heap[y].ret, CA \notin a.heap[y].ret, a.heap[y] \in Bundles,
         z # r /\ CA \in a.heap[z].ret => Reaches(a, a.heap[r], z),
         NEW v, v = Grown(x, y, z)
  PROVE  Joining(v, a, r, same)
<1> DEFINE c == x.heap[y]
           n == c.size + x.heap[z].size
<1>1. /\ x \in AgentState /\ c \in Bundles /\ x.heap[z] \in Bundles
      /\ Joined(x, a, r, y) /\ Joined(x, a, r, z)
  BY DEF Joining, Joined
<1>2. /\ v \in AgentState /\ SameNode(v, x) /\ v.sent = x.sent
      /\ v.heap[y] = Resized(c, n) /\ v.heap[y] \in Bundles
      /\ \A q \in Refs \ {y} : v.heap[q] = x.heap[q]
      /\ v.store = x.store \ {z} /\ v.retrans = x.retrans \ {z}
  BY <1>1, GrownEffect
<1>3. /\ c.off \in Nat /\ c.size \in Nat /\ x.heap[z].off \in Nat /\ x.heap[z].size \in Nat
      /\ n \in Nat /\ a.heap[y].size \in Nat
  BY <1>1 DEF Bundles
<1>4. /\ v.heap[y].ret = c.ret /\ v.heap[y].off = c.off /\ v.heap[y].aduLen = c.aduLen
      /\ v.heap[y].size = n
  <2> HIDE DEF c, n
  <2> QED BY <1>1, <1>2, <1>3, ResizedTyped
<1>5. ASSUME NEW i \in Nat, Holds(v.heap[y], i)
      PROVE  Present(a, r, i)
  <2>1. Holds(x.heap[y], i) \/ Holds(x.heap[z], i)
    BY <1>3, <1>4, <1>5 DEF Holds, End
  <2> QED BY <1>1, <2>1 DEF Joined
<1>6. Joined(v, a, r, y)
  <2>1. n >= a.heap[y].size
    BY <1>1, <1>3 DEF Joined
  <2> HIDE DEF c, n
  <2> QED BY <1>1, <1>2, <1>4, <1>5, <2>1 DEF Joined, c
<1>7. \A q \in same : Joined(v, a, r, q)
  <2> SUFFICES ASSUME NEW q \in same, q # y PROVE Joined(v, a, r, q)
    BY <1>6
  <2>1. v.heap[q] = x.heap[q] /\ Joined(x, a, r, q)
    BY <1>2 DEF Joining
  <2> QED BY <2>1 DEF Joined
<1>8. CustodyKept(v, a, r)
  BY <1>2 DEF CustodyKept, Joining
<1> HIDE DEF c, n
<1>9. \A q \in Refs \ same : v.heap[q] = a.heap[q]
  BY <1>2 DEF Joining
<1> QED BY <1>2, <1>7, <1>8, <1>9 DEF Joining, SameNode

(* Joining the fragments of an ADU leaves what waits for a CLA or is in    *)
(* custody as it is: a whole bundle does not end where a fragment begins.  *)
(* One in custody may be taken in by the fragment, though, where Forward   *)
(* has moved its offset to the end of what is there.                       *)
LEMMA CoalesceWhole ==
  ASSUME NEW a, WholeInv(a), AgentInv(a), NEW r \in Refs,
         a.heap[r] \in Bundles, a.heap[r].ret = {DP}, a.heap[r].size > 0,
         End(a.heap[r]) <= a.heap[r].aduLen, a.heap[r].frag,
         OneLength(a, a.heap[r]),
         NEW d \in Coalesce(a, r)
  PROVE  WholeInv(d) /\ CustodyKept(d, a, r)
<1> DEFINE b == a.heap[r]
           others == GetBundles(a, b.src, b.id)
           same == others \cup {r}
           T == {x \in AgentState : Joining(x, a, r, same)}
<1>1. a \in AgentState /\ a.store \subseteq Refs
  BY DEF WholeInv, AgentState
<1>2. /\ \A x \in others : x \in a.store /\ a.heap[x].src = b.src /\ a.heap[x].id = b.id
      /\ \A x \in same : x \in Refs /\ a.heap[x] \in Bundles
  BY <1>1 DEF GetBundles, AgentInv, Owned
<1>3. /\ b.off \in Nat /\ b.size \in Nat \ {0} /\ b.aduLen \in Nat
      /\ b.off + b.size <= b.aduLen
  BY DEF Bundles, End
<1>4. \A x \in others : FP \in a.heap[x].ret \/ CA \in a.heap[x].ret =>
        a.heap[x].size = b.aduLen
  BY <1>2 DEF WholeInv, Unsplit, OneLength
<1>5. FP \notin b.ret /\ CA \notin b.ret
  BY DEF FP, CA, DP
<1> HIDE DEF others
<1>6. \A i \in Nat : \A q \in same : Holds(a.heap[q], i) => Present(a, r, i)
  BY DEF Present, others
<1>7. a \in T
  <2>1. \A q \in same : Joined(a, a, r, q)
    <3> SUFFICES ASSUME NEW q \in same PROVE Joined(a, a, r, q)
      OBVIOUS
    <3>1. a.heap[q] \in Bundles /\ a.heap[q].size \in Nat
      BY <1>2 DEF Bundles
    <3> QED BY <1>6, <3>1 DEF Joined
  <2> HIDE DEF same
  <2> QED BY <1>1, <2>1 DEF Joining, SameNode, CustodyKept
<1>8. ASSUME NEW x \in T, NEW q \in others
      PROVE  Visit(x, r, q) \in T
  <2> DEFINE v == Visit(x, r, q)
  <2>1. /\ Joining(x, a, r, same) /\ Joined(x, a, r, r) /\ Joined(x, a, r, q)
        /\ q \in same /\ r \in same
    BY DEF Joining
  <2>2. /\ x.heap[r].off = b.off /\ x.heap[r].size >= b.size /\ x.heap[r].size \in Nat
        /\ x.heap[q].off = a.heap[q].off /\ x.heap[q].size \in Nat /\ x.heap[q].off \in Nat
    BY <2>1 DEF Joined, Bundles
  <2> HIDE DEF T, same, v
  <2>3. CASE v = x
    BY <2>3 DEF v
  <2>4. CASE v = Grown(x, q, r) /\ x.heap[r].off = End(x.heap[q])
    <3>1. FP \notin a.heap[q].ret /\ CA \notin a.heap[q].ret
      <4> SUFFICES ASSUME FP \in a.heap[q].ret \/ CA \in a.heap[q].ret PROVE FALSE
        OBVIOUS
      <4>1. x.heap[q].size = b.aduLen
        BY <1>4, <2>1 DEF Joined
      <4> HIDE DEF b
      <4> QED BY <1>3, <2>2, <2>4, <4>1 DEF End
    <3>2. same \in SUBSET Refs /\ a.heap[q] \in Bundles
      BY <1>2, <2>1
    <3>3. Joining(v, a, r, same)
      BY <1>1, <2>1, <2>4, <3>1, <3>2, JoiningGrows
    <3> QED BY <3>3 DEF T, Joining, v
  <2>5. CASE v = Grown(x, r, q) /\ End(x.heap[r]) = x.heap[q].off
    <3>1. Reaches(a, b, q)
      <4>1. End(b) <= a.heap[q].off
        <5> HIDE DEF b
        <5> QED BY <1>3, <2>2, <2>5 DEF End
      <4>2. ASSUME NEW i \in End(b) .. (a.heap[q].off - 1)
            PROVE  \E p \in others : Holds(a.heap[p], i)
        <5>1. i \in Nat /\ Holds(x.heap[r], i) /\ ~ Holds(b, i)
          <6> HIDE DEF b
          <6> QED BY <1>3, <2>2, <2>5, <4>2 DEF Holds, End
        <5>2. Present(a, r, i)
          BY <2>1, <5>1 DEF Joined
        <5> QED BY <5>1, <5>2 DEF Present, others
      <4> QED BY <1>2, <4>1, <4>2 DEF Reaches, others
    <3>2. same \in SUBSET Refs
      BY <1>2
    <3>3. Joining(v, a, r, same)
      BY <1>1, <1>5, <2>1, <2>5, <3>1, <3>2, JoiningGrows
    <3> QED BY <3>3 DEF T, Joining, v
  <2> QED BY <2>3, <2>4, <2>5, VisitCases DEF v
<1>9. d \in T
  <2> HIDE DEF T
  <2> QED BY <1>1, <1>7, <1>8, CoalesceLeads DEF others
<1>10. Joining(d, a, r, same)
  BY <1>9
<1> HIDE DEF T, same
<1>11. ASSUME NEW q \in Refs PROVE Unsplit(d, q)
  <2>1. CASE q \in same
    <3>1. /\ d.heap[q].ret = a.heap[q].ret /\ d.heap[q].aduLen = a.heap[q].aduLen
          /\ FP \in a.heap[q].ret \/ CA \in a.heap[q].ret => d.heap[q].size = a.heap[q].size
      BY <1>10, <2>1 DEF Joining, Joined
    <3> QED BY <1>10, <3>1 DEF Joining, Unsplit, WholeInv
  <2>2. CASE q \notin same
    <3>1. d.heap[q] = a.heap[q]
      BY <1>10, <2>2 DEF Joining
    <3> QED BY <1>10, <3>1 DEF Joining, Unsplit, WholeInv
  <2> QED BY <2>1, <2>2
<1>12. ASSUME NEW q \in Refs PROVE SentWhole(d, q)
  BY <1>10 DEF Joining, SentWhole, WholeInv
<1>13. d.eid = Self
  BY <1>10 DEF Joining, SameNode, WholeInv
<1> QED BY <1>10, <1>11, <1>12, <1>13 DEF WholeInv, Joining

(* EnqueueForDeliveryToApplication: administrative record, fragment, or    *)
(* whole bundle.                                                           *)
LEMMA EnqueueWhole ==
  ASSUME NEW a, WholeInv(a), AgentInv(a), NEW r \in Refs,
         a.heap[r] \in Bundles, a.heap[r].ret = {DP}, a.heap[r].size > 0,
         End(a.heap[r]) <= a.heap[r].aduLen,
         OneLength(a, a.heap[r]),
         NEW d \in EnqueueForDeliveryToApplication(a, r)
  PROVE  WholeInv(d) /\ CustodyKept(d, a, r)
<1> DEFINE b == a.heap[r]
<1>1. a \in AgentState /\ a.store \subseteq Refs  BY DEF WholeInv, AgentState
<1>2. CASE b.dst = a.eid
  <2>1. PICK c \in AdminRecord(a, b.content) : d = Remove(c, {r})
    BY <1>2 DEF EnqueueForDeliveryToApplication
  <2>2. WholeInv(c) /\ CustodyKept(c, a, r)
    <3>1. CASE c = a
      BY <3>1 DEF CustodyKept
    <3>2. CASE c # a
      <4>1. b.content # AppData /\ b.content \in Contents
        BY <3>2 DEF AdminRecord, Bundles
      <4>2. b.content \in CustodySignals  BY <4>1 DEF Contents
      <4>3. PICK s \in GetBundle(a, b.content.src, b.content.id) :
              c = Acknowledge(a, s, b.content)
        BY <3>2 DEF AdminRecord
      <4>4. /\ s \in a.store /\ s \in Refs
            /\ a.heap[s].src = b.content.src /\ a.heap[s].id = b.content.id
        BY <1>1 DEF GetBundle, First, GetBundles
      <4>5. a.heap[s] \in Bundles  BY <4>4 DEF AgentInv, Owned
      <4>6. /\ c \in AgentState /\ SameNode(c, a) /\ c.sent = a.sent
            /\ c.heap[s] = Acked(a.heap[s], b.content)
            /\ \A q \in Refs \ {s} : SameObject(c, a, q)
            /\ c.store \subseteq a.store /\ c.retrans \subseteq a.retrans
            /\ s \in a.store \ c.store => FullyAcked(c.heap[s])
        <5> HIDE DEF b
        <5> QED BY <1>1, <4>2, <4>3, <4>4, <4>5, AcknowledgeEffect
      <4>7. /\ c.heap[s].ret = a.heap[s].ret /\ c.heap[s].size = a.heap[s].size
            /\ c.heap[s].aduLen = a.heap[s].aduLen
        <5> HIDE DEF b
        <5> QED BY <4>5, <4>6 DEF Acked, Bundles
      <4>8. ASSUME NEW q \in Refs PROVE Unsplit(c, q) /\ SentWhole(c, q)
        <5>1. CASE q = s  BY <4>6, <4>7, <5>1 DEF Unsplit, SentWhole, WholeInv
        <5>2. CASE q # s  BY <4>6, <5>2 DEF Unsplit, SentWhole, WholeInv, SameObject
        <5> QED BY <5>1, <5>2
      <4>9. c.eid = Self  BY <4>6 DEF SameNode, WholeInv
      <4>10. ASSUME NEW q \in a.store \ {r}, q \notin c.store
             PROVE  Completes(a, b, q)
        <5>1. q = s  BY <1>1, <4>6, <4>10 DEF SameObject
        <5>2. FullyAcked(Acked(a.heap[s], b.content))  BY <4>6, <4>10, <5>1
        <5>3. Acknowledged(a.heap[s], b.content) = 0..(a.heap[s].aduLen - 1)
          <6> HIDE DEF b
          <6> QED BY <4>2, <4>5, <5>2, FullAck
        <5> QED BY <1>2, <4>1, <4>4, <5>1, <5>3 DEF Completes
      <4> QED BY <4>6, <4>8, <4>9, <4>10 DEF WholeInv, CustodyKept
    <3> QED BY <3>1, <3>2
  <2>3. WholeInv(d)  BY <2>1, <2>2, RemoveWhole
  <2>4. d.store = c.store \ {r}
    <3>1. c \in AgentState  BY <2>2 DEF WholeInv
    <3> QED BY <2>1, <3>1, RemoveEffect
  <2> QED BY <2>2, <2>3, <2>4 DEF CustodyKept
<1>3. CASE b.dst # a.eid /\ b.frag
  <2>1. d \in Coalesce(a, r)
    BY <1>3 DEF EnqueueForDeliveryToApplication
  <2> QED BY <1>3, <2>1, CoalesceWhole
<1>4. CASE b.dst # a.eid /\ ~ b.frag
  <2>1. d = a  BY <1>4 DEF EnqueueForDeliveryToApplication
  <2> QED BY <2>1 DEF CustodyKept
<1> QED BY <1>2, <1>3, <1>4

(* ProcessBundle, whether it delivers the bundle or forwards it.           *)
LEMMA ProcessBundleWhole ==
  ASSUME NEW a, WholeInv(a), AgentInv(a), NEW b \in Bundles, IsReceived(b),
         NEW r \in Free(a), NEW late \in BOOLEAN,
         NEW r2 \in Free(a), r # r2, NEW late2 \in BOOLEAN,
         OneLength(a, b),
         b.frag => IsNodeMember(a, b.dst),
         NEW f \in ProcessBundle(a, b, r, late, r2, late2)
  PROVE  /\ WholeInv(f)
         /\ \A s \in a.store :
              CA \in a.heap[s].ret /\ s \notin f.store =>
                \/ Completes(a, b, s)
                \/ a.reg[b.dst] = "active" /\ Reaches(a, b, s)
<1> DEFINE c == [b EXCEPT !.ret = @ \cup {DP}]
           t == Store(a, r, c, late)
<1>1. /\ c \in Bundles /\ c.ret = {DP} /\ SameAdu(c, b) /\ c.off = b.off
      /\ c.frag = b.frag
  BY DEF IsReceived, Bundles, RetentionConstraints, SameAdu
<1>2. /\ b.size > 0 /\ b.off + b.size <= b.aduLen
      /\ b.frag <=> b.size < b.aduLen
      /\ b.size \in Nat /\ b.aduLen \in Nat /\ b.off \in Nat
  BY DEF IsReceived, Bundles
<1>3. a \in AgentState /\ a.eid = Self  BY DEF WholeInv
<1>4. /\ r \in Refs /\ r \notin a.store \cup a.retrans
      /\ r2 \in Refs /\ r2 \notin a.store \cup a.retrans
  BY FreeIsUnused
<1> HIDE DEF c
<1>5. /\ t \in AgentState /\ SameNode(t, a) /\ t.sent = a.sent
      /\ t.retrans = a.retrans /\ t.heap[r] = c
      /\ \A q \in Refs \ {r} : SameObject(t, a, q)
      /\ t.store \in {a.store, a.store \cup {r}}
  BY <1>1, <1>3, <1>4, StoreFields
<1>6. /\ t.lost = {}
      /\ r \in t.expiry <=> r \in t.store /\ c.life = "finite"
      /\ \A q \in Refs \ {r} : Owned(t, q)
  BY <1>1, StoreEffect
<1>7. f \in IF IsNodeMember(a, b.dst) THEN Deliver(t, r, r2, late2) ELSE {Forward(t, {r})}
  BY DEF ProcessBundle, t, c
<1> HIDE DEF t
<1>c. /\ t.heap[r] \in Bundles /\ t.heap[r].ret = {DP}
      /\ SameAdu(t.heap[r], b) /\ t.heap[r].off = b.off
      /\ t.heap[r].life = c.life
  BY <1>1, <1>5
<1>8. ASSUME NEW q \in Refs \ {r} PROVE Unsplit(t, q)
  BY <1>5 DEF SameObject, Unsplit, WholeInv
<1>9. ASSUME NEW q \in Refs PROVE SentWhole(t, q)
  BY <1>5 DEF SentWhole, WholeInv
<1>10. \A s \in a.store : s \in Refs /\ s # r /\ s # r2 /\ s \in t.store /\ t.heap[s] = a.heap[s]
  BY <1>3, <1>4, <1>5 DEF AgentState, SameObject
<1>11. t.eid = Self  BY <1>3, <1>5 DEF SameNode
<1>12. CASE ~ IsNodeMember(a, b.dst)
  <2>1. f = Forward(t, {r})  BY <1>7, <1>12
  <2>2. t.heap[r].size = t.heap[r].aduLen
    BY <1>2, <1>c, <1>12 DEF SameAdu
  <2>3. {r} \in SUBSET Refs /\ \A q \in {r} : t.heap[q] \in Bundles /\ t.heap[q].size = t.heap[q].aduLen
    BY <1>4, <1>c, <2>2
  <2>4. WholeInv(f)  BY <1>5, <1>8, <1>9, <1>11, <2>1, <2>3, ForwardWhole
  <2>5. \A q \in Refs \ {r} : SameObject(f, t, q)
    BY <1>5, <2>1, <2>3, ForwardEffect
  <2> QED BY <1>10, <2>4, <2>5 DEF SameObject
<1>13. CASE IsNodeMember(a, b.dst)
  <2>1. Unsplit(t, r)  BY <1>c DEF Unsplit, FP, CA, DP
  <2>2. WholeInv(t)  BY <1>5, <1>8, <1>9, <1>11, <2>1 DEF WholeInv
  <2>3. AgentInv(t)
    <3>1. CA \notin {DP} /\ {DP} \in Constraints  BY DEF Constraints, CA, DP
    <3>2. Owned(t, r)  BY <1>c, <1>4, <1>5, <1>6, <3>1 DEF Owned
    <3> QED BY <1>5, <1>6, <3>2 DEF AgentInv
  <2> DEFINE enqueued == IF t.reg[c.dst] = "active"
                         THEN EnqueueForDeliveryToApplication(t, r) ELSE {t}
  <2>4. PICK d \in enqueued :
          f = IF d.heap[r].custody THEN SendCustodySignal(d, r2, d.heap[r], late2) ELSE d
    BY <1>5, <1>7, <1>13 DEF Deliver
  <2>5. /\ WholeInv(d) /\ CustodyKept(d, t, r) /\ Delivers(d, t, r)
        /\ d.store # t.store => t.reg[c.dst] = "active"
    <3>1. CASE d = t  BY <2>2, <2>3, <1>1, <1>5, <3>1 DEF CustodyKept, Delivers
    <3>2. CASE d # t
      <4>0. t.reg[c.dst] = "active" /\ d \in EnqueueForDeliveryToApplication(t, r)
        BY <2>4, <3>2
      <4>1. OneLength(t, c)
        <5> SUFFICES ASSUME NEW s \in GetBundles(t, c.src, c.id), s # r
                     PROVE  t.heap[s].aduLen = c.aduLen
          BY <1>5 DEF OneLength
        <5>1. s \in GetBundles(a, b.src, b.id) /\ t.heap[s] = a.heap[s]
          BY <1>1, <1>5, <1>10 DEF GetBundles, SameAdu
        <5> QED BY <1>1, <5>1 DEF SameAdu, OneLength
      <4>2. c.size > 0 /\ End(c) <= c.aduLen  BY <1>1, <1>2 DEF End, SameAdu
      <4>3. WholeInv(d) /\ CustodyKept(d, t, r)
        BY <1>1, <1>4, <1>5, <2>2, <2>3, <4>0, <4>1, <4>2, EnqueueWhole
      <4> QED BY <1>1, <1>4, <1>5, <2>3, <4>0, <4>3, EnqueueInv
    <3> QED BY <3>1, <3>2
  <2>6. /\ d \in AgentState /\ d.heap[r] \in Bundles
        /\ r2 \notin d.store \cup d.retrans
    <3>1. a.heap[r2] = NoBundle /\ t.heap[r2] = NoBundle
      BY <1>4, <1>5 DEF Free, SameObject
    <3>2. r2 \in Free(d)  BY <1>4, <2>5, <3>1 DEF Delivers, Free
    <3> QED BY <2>5, <3>2, FreeIsUnused DEF Delivers, WholeInv
  <2> DEFINE m == SignalOf(d, d.heap[r])
             g == Send(d, r2, m, late2)
  <2>7. m \in SendArguments  BY <2>6, SignalTyped
  <2>8. f = IF d.heap[r].custody THEN g ELSE d
    BY <2>4 DEF SendCustodySignal, SignalOf
  <2> HIDE DEF m
  <2>9. WholeInv(g)  BY <1>4, <2>5, <2>6, <2>7, SendWhole
  <2>10. \A q \in Refs \ {r2} : q \in d.store => q \in g.store
    <3>1. CASE m.src # defaultEid /\ ~ IsNodeMember(d, m.src)
      BY <3>1 DEF Send
    <3>2. CASE m.src = defaultEid \/ IsNodeMember(d, m.src)
      <4> HIDE DEF g
      <4>1. \A q \in Refs \ {r2} : SameObject(g, d, q)
        BY <1>4, <2>6, <2>7, <3>2, SendEffect DEF g
      <4> QED BY <4>1 DEF SameObject
    <3> QED BY <3>1, <3>2
  <2> HIDE DEF g
  <2>11. ASSUME NEW s \in a.store, CA \in a.heap[s].ret, s \notin f.store
         PROVE  \/ Completes(a, b, s)
                \/ a.reg[b.dst] = "active" /\ Reaches(a, b, s)
    <3>1. s \in t.store /\ s # r /\ t.heap[s] = a.heap[s] /\ s \notin d.store
      BY <1>10, <2>8, <2>10, <2>11
    <3>2. Completes(t, c, s) \/ Reaches(t, c, s)
      BY <1>5, <2>5, <2>11, <3>1 DEF CustodyKept
    <3>3. a.reg[b.dst] = "active"
      BY <1>1, <1>5, <2>5, <3>1 DEF SameNode, SameAdu
    <3>4. CASE Completes(t, c, s)
      BY <1>1, <1>5, <3>1, <3>4 DEF Completes, SameAdu, SameNode
    <3>5. CASE Reaches(t, c, s)
      <4>1. ASSUME NEW i \in End(b) .. (a.heap[s].off - 1)
            PROVE  \E p \in GetBundles(a, b.src, b.id) : Holds(a.heap[p], i)
        <5>1. End(c) = End(b)
          BY <1>1 DEF End, SameAdu
        <5>2. PICK p \in GetBundles(t, c.src, c.id) : Holds(t.heap[p], i)
          BY <3>1, <3>5, <4>1, <5>1 DEF Reaches
        <5>3. End(b) \in Nat /\ a.heap[s].off \in Nat
          <6>1. a.heap[s] \in Bundles
            BY <1>10, <2>11 DEF AgentInv, Owned
          <6> QED BY <1>2, <6>1 DEF End, Bundles
        <5>4. p # r
          BY <1>5, <4>1, <5>1, <5>2, <5>3 DEF Holds
        <5>5. p \in GetBundles(a, b.src, b.id) /\ t.heap[p] = a.heap[p]
          BY <1>1, <1>5, <1>10, <5>2, <5>4 DEF GetBundles, SameAdu
        <5> QED BY <5>2, <5>5
      <4>2. End(c) = End(b) /\ c.frag = b.frag /\ c.src = b.src /\ c.id = b.id
        BY <1>1 DEF End, SameAdu
      <4>3. Reaches(a, b, s)
        BY <3>1, <3>5, <4>1, <4>2 DEF Reaches
      <4> QED BY <3>3, <4>3
    <3> QED BY <3>2, <3>4, <3>5
  <2> QED BY <2>5, <2>8, <2>9, <2>11
<1> QED BY <1>12, <1>13

----------------------------------------------------------------------------
(* The invariant holds of an agent that has just been created.             *)
LEMMA InitInv == Init => AgentInv(agent)
<1> SUFFICES ASSUME Init PROVE AgentInv(agent)  OBVIOUS
<1>1. agent \in AgentState
  <2>1. [r \in Refs |-> <<>>] \in [Refs -> Seq(Bundles)]  OBVIOUS
  <2> QED BY <2>1, AgentAssumption DEF Init, AgentState, Registration
<1>2. ASSUME NEW r \in Refs PROVE Owned(agent, r)
  BY DEF Init, Owned
<1>3. agent.lost = {}  BY DEF Init
<1> QED BY <1>1, <1>2, <1>3 DEF AgentInv

(* Every action preserves the invariant: one step per action of the        *)
(* specification.                                                          *)
LEMMA NextInv ==
  ASSUME AgentInv(agent), [Next]_vars
  PROVE  AgentInv(agent')
<1> DEFINE q == Quiet(agent)
<1>0. AgentInv(q) /\ Free(q) = Free(agent) /\ q.reg = agent.reg
  BY QuietInv
<1>s. /\ q.store = agent.store /\ q.expiry = agent.expiry
      /\ q.retrans = agent.retrans /\ q.heap = agent.heap /\ q.route = agent.route
  BY DEF Quiet, AgentInv, AgentState
<1> HIDE DEF q
<1>1. ASSUME NEW e \in LocalEids, NEW s \in Registration, SetRegistration(e, s)
      PROVE  AgentInv(agent')
  <2>1. agent' = [q EXCEPT !.reg[e] = s]  BY <1>1 DEF SetRegistration, q
  <2>2. e \in Eids  BY AgentAssumption
  <2>3. agent' \in AgentState
    <3>1. q \in AgentState  BY <1>0 DEF AgentInv
    <3>2. q.reg \in [Eids -> Registration]  BY <3>1 DEF AgentState
    <3>3. [q.reg EXCEPT ![e] = s] \in [Eids -> Registration]  BY <1>1, <2>2, <3>2
    <3> QED BY <2>1, <3>1, <3>3 DEF AgentState
  <2>4. /\ agent'.heap = q.heap /\ agent'.store = q.store /\ agent'.expiry = q.expiry
        /\ agent'.retrans = q.retrans /\ agent'.lost = q.lost
    BY <1>0, <2>1 DEF AgentInv, AgentState
  <2> QED BY <1>0, <2>3, <2>4, ConfigurationInv
<1>2. ASSUME NEW c \in Clas, NEW b \in BOOLEAN, SetReady(c, b)
      PROVE  AgentInv(agent')
  <2>1. agent' = [q EXCEPT !.ready[c] = b]  BY <1>2 DEF SetReady, q
  <2>2. agent' \in AgentState  BY <1>0, <2>1 DEF AgentInv, AgentState
  <2>3. /\ agent'.heap = q.heap /\ agent'.store = q.store /\ agent'.expiry = q.expiry
        /\ agent'.retrans = q.retrans /\ agent'.lost = q.lost
    BY <1>0, <2>1 DEF AgentInv, AgentState
  <2> QED BY <1>0, <2>2, <2>3, ConfigurationInv
<1>3. ASSUME NEW route \in Routes, ChangeRoute(route)
      PROVE  AgentInv(agent')
  <2>1. agent' = [q EXCEPT !.route = route]  BY <1>3 DEF ChangeRoute, q
  <2>2. route \in [Eids -> Clas \cup {NoCla}]  BY AgentAssumption
  <2> QED BY <1>0, <2>1, <2>2, ConfigurationInv DEF AgentInv, AgentState
<1>4. ASSUME NEW m \in Messages, NEW r \in Refs, NEW late \in BOOLEAN, AppSend(m, r, late)
      PROVE  AgentInv(agent')
  <2>1. m \in SendArguments  BY AgentAssumption
  <2>2. r \in Free(q)  BY <1>0, <1>4 DEF AppSend
  <2>3. agent' = Collect(Send(q, r, m, late))  BY <1>4 DEF AppSend, q
  <2> QED BY <1>0, <2>1, <2>2, <2>3, SendInv, CollectInv
<1>5. ASSUME NEW e \in Eids, Receive(e)
      PROVE  AgentInv(agent')
  <2>1. PICK r \in Receivable(agent, e) : agent' = Collect(Remove(q, {r}))
    BY <1>5 DEF Receive, q
  <2>2. {r} \in SUBSET Refs
    BY DEF Receivable, First, AgentInv, AgentState
  <2> QED BY <1>0, <2>1, <2>2, RemoveInv, CollectInv
<1>6. ASSUME NEW b \in Arrivals, NEW r \in Refs, NEW r2 \in Refs,
             NEW late \in BOOLEAN, NEW late2 \in BOOLEAN, Arrive(b, r, late, r2, late2)
      PROVE  AgentInv(agent')
  <2>1. r \in Free(q) /\ r2 \in Free(q) /\ r # r2
    BY <1>0, <1>6 DEF Arrive
  <2>2. PICK f \in ProcessBundle(q, b, r, late, r2, late2) : agent' = Collect(f)
    BY <1>6 DEF Arrive, q
  <2>3. b \in Bundles /\ b.ret = {}  BY AgentAssumption DEF IsReceived
  <2>4. AgentInv(f)  BY <1>0, <2>1, <2>3, ProcessBundleInv
  <2> QED BY <2>2, <2>4, CollectInv
<1>7. ASSUME NEW c \in Clas, ClaReady(c)
      PROVE  AgentInv(agent')
  <2> DEFINE P == GetForwardPendingBundles(agent, c)
  <2>1. agent' = Collect(Forward(q, P))  BY <1>7 DEF ClaReady, q
  <2>2. P = GetForwardPendingBundles(q, c)
    BY <1>s DEF GetForwardPendingBundles, OutgoingCla
  <2> QED BY <1>0, <2>1, <2>2, PendingInv, CollectInv
<1>8. ASSUME NEW r \in Refs, Expire(r)
      PROVE  AgentInv(agent')
  <2>1. agent' = Collect(Remove(q, {r}))  BY <1>8 DEF Expire, q
  <2> QED BY <1>0, <2>1, RemoveInv, CollectInv
<1>9. ASSUME NEW r \in Refs, Retransmit(r)
      PROVE  AgentInv(agent')
  <2> DEFINE a == [q EXCEPT !.retrans = @ \ {r}]
  <2>1. r \in q.retrans /\ agent' = Collect(Forward(a, {r}))
    BY <1>9, <1>s DEF Retransmit, q
  <2> QED BY <1>0, <2>1, RetransmitInv, CollectInv
<1>10. CASE UNCHANGED vars
  BY <1>10 DEF vars
<1>11. CASE Configure
  <2>1. {"none", "passive", "active"} = Registration  BY DEF Registration
  <2> QED BY <1>1, <1>2, <1>3, <1>11, <2>1
          DEF Configure, Register, Unregister, Bind, Close
<1>12. CASE Application  BY <1>4, <1>5, <1>12 DEF Application
<1>13. CASE Network  BY <1>6, <1>7, <1>13 DEF Network
<1>14. CASE Timer  BY <1>8, <1>9, <1>14 DEF Timer
<1> QED BY <1>10, <1>11, <1>12, <1>13, <1>14 DEF Next

(* The invariant of wholeness begins with an empty agent.                  *)
LEMMA InitWhole == Init => WholeInv(agent)
<1> SUFFICES ASSUME Init PROVE WholeInv(agent)  OBVIOUS
<1>1. agent \in AgentState  BY InitInv DEF AgentInv
<1>2. /\ agent.eid = Self /\ agent.store = {} /\ agent.retrans = {}
      /\ \A r \in Refs : agent.sent[r] = <<>>
  BY DEF Init
<1> QED BY <1>1, <1>2 DEF WholeInv, Unsplit, SentWhole

(* Every action preserves it, one step per action.                         *)
LEMMA NextWhole ==
  ASSUME AgentInv(agent), WholeInv(agent), [Next]_vars
  PROVE  WholeInv(agent')
<1> DEFINE q == Quiet(agent)
<1>0. /\ AgentInv(q) /\ WholeInv(q) /\ Free(q) = Free(agent) /\ q.reg = agent.reg
      /\ agent \in AgentState /\ q \in AgentState
  BY QuietInv, QuietWhole DEF AgentInv
<1>s. /\ q.store = agent.store /\ q.retrans = agent.retrans
      /\ q.heap = agent.heap /\ q.route = agent.route /\ q.eid = agent.eid
  BY <1>0, QuietEffect DEF SameNode
<1>i. agent' \in AgentState  BY NextInv DEF AgentInv
<1>f. ASSUME NEW r \in Free(agent) PROVE r \in Refs /\ r \notin q.store \cup q.retrans
  BY <1>0, FreeIsUnused
<1> HIDE DEF q
<1>c. ASSUME agent'.eid = q.eid, agent'.heap = q.heap, agent'.store = q.store,
             agent'.retrans = q.retrans, agent'.sent = q.sent
      PROVE  WholeInv(agent')
  BY <1>0, <1>c, <1>i DEF WholeInv, Unsplit, SentWhole
<1>1. ASSUME NEW e \in LocalEids, NEW s \in Registration, SetRegistration(e, s)
      PROVE  WholeInv(agent')
  <2>1. agent' = [q EXCEPT !.reg[e] = s]  BY <1>1 DEF SetRegistration, q
  <2> QED BY <1>0, <1>c, <2>1 DEF AgentState
<1>2. ASSUME NEW c \in Clas, NEW b \in BOOLEAN, SetReady(c, b)
      PROVE  WholeInv(agent')
  <2>1. agent' = [q EXCEPT !.ready[c] = b]  BY <1>2 DEF SetReady, q
  <2> QED BY <1>0, <1>c, <2>1 DEF AgentState
<1>3. ASSUME NEW route \in Routes, ChangeRoute(route)
      PROVE  WholeInv(agent')
  <2>1. agent' = [q EXCEPT !.route = route]  BY <1>3 DEF ChangeRoute, q
  <2> QED BY <1>0, <1>c, <2>1 DEF AgentState
<1>4. ASSUME NEW m \in Messages, NEW r \in Refs, NEW late \in BOOLEAN, AppSend(m, r, late)
      PROVE  WholeInv(agent')
  <2>1. m \in SendArguments  BY AgentAssumption
  <2>2. r \notin q.store \cup q.retrans  BY <1>f, <1>4 DEF AppSend
  <2>3. agent' = Collect(Send(q, r, m, late))  BY <1>4 DEF AppSend, q
  <2> QED BY <1>0, <2>1, <2>2, <2>3, SendWhole, CollectWhole
<1>5. ASSUME NEW e \in Eids, Receive(e)
      PROVE  WholeInv(agent')
  <2>1. PICK r \in Receivable(agent, e) : agent' = Collect(Remove(q, {r}))
    BY <1>5 DEF Receive, q
  <2>2. {r} \in SUBSET Refs
    BY DEF Receivable, First, AgentInv, AgentState
  <2> QED BY <1>0, <2>1, <2>2, RemoveWhole, CollectWhole
<1>6. ASSUME NEW b \in Arrivals, NEW r \in Refs, NEW r2 \in Refs,
             NEW late \in BOOLEAN, NEW late2 \in BOOLEAN, Arrive(b, r, late, r2, late2)
      PROVE  WholeInv(agent')
  <2>1. /\ r \in Free(q) /\ r2 \in Free(q) /\ r # r2
        /\ OneLength(q, b)
        /\ b.frag => IsNodeMember(q, b.dst)
    BY <1>0, <1>s, <1>6 DEF Arrive, IsOfOneAdu, OneLength, GetBundles, IsNodeMember
  <2>2. PICK f \in ProcessBundle(q, b, r, late, r2, late2) : agent' = Collect(f)
    BY <1>6 DEF Arrive, q
  <2>3. b \in Bundles /\ IsReceived(b)  BY AgentAssumption
  <2>4. WholeInv(f)  BY <1>0, <2>1, <2>3, ProcessBundleWhole
  <2> QED BY <2>2, <2>4, CollectWhole
<1>7. ASSUME NEW c \in Clas, ClaReady(c)
      PROVE  WholeInv(agent')
  <2> DEFINE P == GetForwardPendingBundles(agent, c)
  <2>1. agent' = Collect(Forward(q, P))  BY <1>7 DEF ClaReady, q
  <2>2. P \in SUBSET Refs /\ \A r \in P : r \in q.store /\ FP \in q.heap[r].ret
    BY <1>0, <1>s DEF GetForwardPendingBundles, AgentState
  <2> HIDE DEF P
  <2>3. \A r \in P : q.heap[r] \in Bundles /\ q.heap[r].size = q.heap[r].aduLen
    BY <1>0, <2>2 DEF AgentInv, Owned, WholeInv, Unsplit
  <2>4. WholeInv(Forward(q, P))
    BY <1>0, <2>2, <2>3, ForwardWhole DEF WholeInv
  <2> QED BY <2>1, <2>4, CollectWhole
<1>8. ASSUME NEW r \in Refs, Expire(r)
      PROVE  WholeInv(agent')
  <2>1. agent' = Collect(Remove(q, {r}))  BY <1>8 DEF Expire, q
  <2> QED BY <1>0, <2>1, RemoveWhole, CollectWhole
<1>9. ASSUME NEW r \in Refs, Retransmit(r)
      PROVE  WholeInv(agent')
  <2> DEFINE a == [q EXCEPT !.retrans = @ \ {r}]
  <2>1. r \in q.retrans /\ agent' = Collect(Forward(a, {r}))
    BY <1>9, <1>s DEF Retransmit, q
  <2>2. /\ a \in AgentState /\ a.eid = q.eid /\ a.heap = q.heap /\ a.store = q.store
        /\ a.retrans = q.retrans \ {r} /\ a.sent = q.sent
    BY <1>0 DEF AgentState
  <2> HIDE DEF a
  <2>3. q.heap[r] \in Bundles /\ q.heap[r].ret = {CA}
    BY <1>0, <2>1 DEF AgentInv, Owned
  <2>4. a.heap[r] \in Bundles /\ a.heap[r].size = a.heap[r].aduLen
    BY <1>0, <2>1, <2>2, <2>3 DEF WholeInv, Unsplit
  <2>5. \A x \in Refs : Unsplit(a, x) /\ SentWhole(a, x)
    BY <1>0, <2>2 DEF WholeInv, Unsplit, SentWhole
  <2>6. WholeInv(Forward(a, {r}))
    <3>1. a.eid = Self  BY <1>0, <2>2 DEF WholeInv
    <3> QED BY <2>2, <2>4, <2>5, <3>1, ForwardWhole
  <2> QED BY <2>6, <2>1, CollectWhole
<1>10. CASE UNCHANGED vars
  BY <1>10 DEF vars
<1>11. CASE Configure
  <2>1. {"none", "passive", "active"} = Registration  BY DEF Registration
  <2> QED BY <1>1, <1>2, <1>3, <1>11, <2>1
          DEF Configure, Register, Unregister, Bind, Close
<1>12. CASE Application  BY <1>4, <1>5, <1>12 DEF Application
<1>13. CASE Network  BY <1>6, <1>7, <1>13 DEF Network
<1>14. CASE Timer  BY <1>8, <1>9, <1>14 DEF Timer
<1> QED BY <1>10, <1>11, <1>12, <1>13, <1>14 DEF Next

(* The pieces of a whole ADU are as TransmissionIsWhole asks.              *)
LEMMA TransmissionWhole ==
  ASSUME NEW b \in Bundles, b.size = b.aduLen,
         NEW pieces, pieces = Transmission(b), pieces # <<>>
  PROVE  /\ \A k \in 1..Len(pieces) :
              /\ pieces[k].size \in 1..BundleSize
              /\ pieces[k].frag = (Len(pieces) > 1)
              /\ pieces[k].off = IF k = 1 THEN 0 ELSE End(pieces[k - 1])
         /\ End(pieces[Len(pieces)]) = pieces[1].aduLen
<1> DEFINE n == Pieces(b)
<1>1. BundleSize \in Nat \ {0} /\ b.size \in Nat  BY BundleAssumption DEF Bundles
<1>2. n \in Nat  BY <1>1 DEF Pieces
<1>3. Len(pieces) = n /\ \A k \in 1..n : pieces[k] = Piece(b, k)
  BY <1>2 DEF Transmission
<1>4. n >= 1
  <2>1. CASE n = 0  BY <2>1 DEF Transmission
  <2> QED BY <1>2, <2>1
<1>5. \A k \in 1..n : /\ pieces[k].size = PieceSize(b, k)
                      /\ pieces[k].off = PieceOffset(b, k)
                      /\ pieces[k].frag = MustFragment(b)
                      /\ pieces[k].aduLen = b.aduLen
  BY <1>3 DEF Piece, Bundles
<1>6. \A k \in 1..n : /\ PieceSize(b, k) \in 1..BundleSize
                      /\ PieceOffset(b, k) = (k - 1) * BundleSize
                      /\ k < n => PieceSize(b, k) = BundleSize
                      /\ k = n => PieceOffset(b, k) + PieceSize(b, k) = b.size
                      /\ MustFragment(b) <=> n > 1
  BY PieceBounds
<1> HIDE DEF n
<1>7. ASSUME NEW k \in 1..n
      PROVE  /\ pieces[k].size \in 1..BundleSize
             /\ pieces[k].frag = (n > 1)
             /\ pieces[k].off = IF k = 1 THEN 0 ELSE End(pieces[k - 1])
  <2>1. pieces[k].size \in 1..BundleSize  BY <1>5, <1>6
  <2>2. pieces[k].frag = (n > 1)
    <3>1. MustFragment(b) \in BOOLEAN /\ (MustFragment(b) <=> n > 1)
      BY <1>6 DEF MustFragment
    <3> QED BY <1>5, <3>1
  <2>3. CASE k = 1
    <3>1. PieceOffset(b, 1) = 0  BY <1>1, <1>4, <1>6, <2>3
    <3> QED BY <1>5, <2>1, <2>2, <2>3, <3>1
  <2>4. CASE k # 1
    <3>1. k - 1 \in 1..n /\ k - 1 < n  BY <1>2, <2>4
    <3>2. /\ PieceOffset(b, k - 1) = (k - 1 - 1) * BundleSize
          /\ PieceSize(b, k - 1) = BundleSize
      BY <1>6, <3>1
    <3>3. PieceOffset(b, k) = (k - 1) * BundleSize  BY <1>6
    <3>4. (k - 1 - 1) * BundleSize + BundleSize = (k - 1) * BundleSize
      BY <1>1, <1>2
    <3>5. End(pieces[k - 1]) = PieceOffset(b, k)
      BY <1>5, <3>1, <3>2, <3>3, <3>4 DEF End
    <3> QED BY <1>5, <2>1, <2>2, <2>4, <3>5
  <2> QED BY <2>3, <2>4
<1>8. End(pieces[n]) = pieces[1].aduLen
  <2>1. n \in 1..n /\ 1 \in 1..n  BY <1>2, <1>4
  <2> QED BY <1>5, <1>6, <2>1 DEF End
<1> QED BY <1>3, <1>7, <1>8

(* A bundle in custody leaves the store by Expire, by Receive, with the    *)
(* arrival of a signal that completes its acks or with that of a fragment  *)
(* that takes it in: one step per action, of which the others leave it     *)
(* where it is.                                                            *)
LEMMA NextKeepsCustody ==
  ASSUME AgentInv(agent), WholeInv(agent), Next,
         NEW s \in agent.store, CA \in agent.heap[s].ret, s \notin agent'.store
  PROVE  \/ CustodyEndsDuly(s)
         \/ \E b \in Arrivals : Absorbs(b, s) /\ Arrives(b)
<1> DEFINE q == Quiet(agent)
<1>0. /\ AgentInv(q) /\ WholeInv(q) /\ Free(q) = Free(agent) /\ q.reg = agent.reg
      /\ agent \in AgentState /\ q \in AgentState
  BY QuietInv, QuietWhole DEF AgentInv
<1>s. /\ q.store = agent.store /\ q.retrans = agent.retrans
      /\ q.heap = agent.heap /\ q.route = agent.route /\ q.eid = agent.eid
  BY <1>0, QuietEffect DEF SameNode
<1>f. ASSUME NEW r \in Free(agent) PROVE r \in Refs /\ r \notin q.store \cup q.retrans
  BY <1>0, FreeIsUnused
<1>r. s \in Refs /\ s \in q.store  BY <1>0, <1>s DEF AgentState
<1> HIDE DEF q
<1>1. ASSUME NEW e \in LocalEids, NEW x \in Registration, SetRegistration(e, x)
      PROVE  FALSE
  <2>1. agent' = [q EXCEPT !.reg[e] = x]  BY <1>1 DEF SetRegistration, q
  <2> QED BY <1>0, <1>r, <2>1 DEF AgentState
<1>2. ASSUME NEW c \in Clas, NEW b \in BOOLEAN, SetReady(c, b)
      PROVE  FALSE
  <2>1. agent' = [q EXCEPT !.ready[c] = b]  BY <1>2 DEF SetReady, q
  <2> QED BY <1>0, <1>r, <2>1 DEF AgentState
<1>3. ASSUME NEW route \in Routes, ChangeRoute(route)
      PROVE  FALSE
  <2>1. agent' = [q EXCEPT !.route = route]  BY <1>3 DEF ChangeRoute, q
  <2> QED BY <1>0, <1>r, <2>1 DEF AgentState
<1>4. ASSUME NEW m \in Messages, NEW r \in Refs, NEW late \in BOOLEAN, AppSend(m, r, late)
      PROVE  FALSE
  <2> DEFINE f == Send(q, r, m, late)
  <2>1. m \in SendArguments  BY AgentAssumption
  <2>2. r \notin q.store \cup q.retrans  BY <1>f, <1>4 DEF AppSend
  <2>3. agent' = Collect(f)  BY <1>4 DEF AppSend, q
  <2>4. m.src = defaultEid \/ IsNodeMember(q, m.src)
    BY <1>0, <1>4 DEF AppSend, IsNodeMember
  <2>5. f \in AgentState /\ \A x \in Refs \ {r} : SameObject(f, q, x)
    BY <1>0, <2>1, <2>2, <2>4, SendEffect
  <2> HIDE DEF f
  <2>6. s \in f.store  BY <1>r, <2>2, <2>5 DEF SameObject
  <2> QED BY <2>3, <2>5, <2>6, CollectEffect
<1>5. ASSUME NEW e \in Eids, Receive(e)
      PROVE  Receive(agent.heap[s].dst)
  <2>1. PICK r \in Receivable(agent, e) : agent' = Collect(Remove(q, {r}))
    BY <1>5 DEF Receive, q
  <2>2. {r} \in SUBSET Refs /\ agent.heap[r].dst = e
    BY <1>0 DEF Receivable, First, AgentState
  <2>3. /\ Remove(q, {r}) \in AgentState /\ Remove(q, {r}).store = q.store \ {r}
    BY <1>0, <2>2, RemoveEffect
  <2>4. s = r  BY <1>r, <2>1, <2>3, CollectEffect
  <2> QED BY <1>5, <2>2, <2>4
<1>6. ASSUME NEW b \in Arrivals, NEW r \in Refs, NEW r2 \in Refs,
             NEW late \in BOOLEAN, NEW late2 \in BOOLEAN, Arrive(b, r, late, r2, late2)
      PROVE  Arrives(b) /\ ((b.dst = Self /\ Releases(b, s)) \/ Absorbs(b, s))
  <2>1. /\ r \in Free(q) /\ r2 \in Free(q) /\ r # r2
        /\ OneLength(q, b)
        /\ b.frag => IsNodeMember(q, b.dst)
    BY <1>0, <1>s, <1>6 DEF Arrive, IsOfOneAdu, OneLength, GetBundles, IsNodeMember
  <2>2. PICK f \in ProcessBundle(q, b, r, late, r2, late2) : agent' = Collect(f)
    BY <1>6 DEF Arrive, q
  <2>3. b \in Bundles /\ IsReceived(b)  BY AgentAssumption
  <2>4. /\ WholeInv(f)
        /\ CA \in q.heap[s].ret /\ s \notin f.store =>
             \/ Completes(q, b, s)
             \/ q.reg[b.dst] = "active" /\ Reaches(q, b, s)
    BY <1>0, <1>r, <2>1, <2>3, ProcessBundleWhole
  <2>5. f \in AgentState  BY <2>4 DEF WholeInv
  <2>6. s \notin f.store  BY <2>2, <2>5, CollectEffect
  <2>7. \/ Completes(q, b, s)
        \/ q.reg[b.dst] = "active" /\ Reaches(q, b, s)
    BY <1>s, <2>4, <2>6
  <2>8. Completes(q, b, s) => b.dst = Self /\ Releases(b, s)
    BY <1>0, <1>s DEF Completes, Releases, WholeInv
  <2>9. q.reg[b.dst] = "active" /\ Reaches(q, b, s) => Absorbs(b, s)
    BY <1>0, <1>s DEF Reaches, Absorbs, GetBundles
  <2>10. Arrives(b)
    BY <1>6 DEF Arrives
  <2> QED BY <2>7, <2>8, <2>9, <2>10
<1>7. ASSUME NEW c \in Clas, ClaReady(c)
      PROVE  FALSE
  <2> DEFINE P == GetForwardPendingBundles(agent, c)
             f == Forward(q, P)
  <2>1. agent' = Collect(f)  BY <1>7 DEF ClaReady, q
  <2>2. P \in SUBSET Refs /\ \A r \in P : r \in q.store
    BY <1>0, <1>s DEF GetForwardPendingBundles, AgentState
  <2> HIDE DEF P
  <2>3. \A r \in P : q.heap[r] \in Bundles
    BY <1>0, <2>2 DEF AgentInv, Owned
  <2>4. /\ f \in AgentState
        /\ \A x \in Refs \ P : SameObject(f, q, x)
        /\ \A x \in P : CanSend(q, x) => SentOut(f, q, x)
        /\ \A x \in P : ~ CanSend(q, x) => KeptBack(f, q, x)
    BY <1>0, <2>2, <2>3, ForwardEffect
  <2> HIDE DEF f
  <2>5. s \in P => Forwarded(q.heap[s]).ret # {}
    <3>1. s \in P => Forwarded(q.heap[s]).ret = q.heap[s].ret \ {DP, FP}
      BY <2>3, ForwardedTyped
    <3>2. CA \in q.heap[s].ret /\ CA \notin {DP, FP}  BY <1>s DEF CA, DP, FP
    <3> QED BY <3>1, <3>2
  <2>6. s \in f.store  BY <1>r, <2>4, <2>5 DEF SameObject, SentOut, KeptBack
  <2> QED BY <2>1, <2>4, <2>6, CollectEffect
<1>8. ASSUME NEW r \in Refs, Expire(r)
      PROVE  Expire(s)
  <2>1. agent' = Collect(Remove(q, {r}))  BY <1>8 DEF Expire, q
  <2>2. /\ Remove(q, {r}) \in AgentState /\ Remove(q, {r}).store = q.store \ {r}
    BY <1>0, RemoveEffect
  <2>3. s = r  BY <1>r, <2>1, <2>2, CollectEffect
  <2> QED BY <1>8, <2>3
<1>9. ASSUME NEW r \in Refs, Retransmit(r)
      PROVE  FALSE
  <2> DEFINE a == [q EXCEPT !.retrans = @ \ {r}]
             f == Forward(a, {r})
  <2>1. r \in q.retrans /\ agent' = Collect(f)
    BY <1>9, <1>s DEF Retransmit, q
  <2>2. a \in AgentState /\ a.heap = q.heap /\ a.store = q.store
    BY <1>0 DEF AgentState
  <2> HIDE DEF a
  <2>3. a.heap[r] \in Bundles /\ a.heap[r].ret = {CA}
    BY <1>0, <2>1, <2>2 DEF AgentInv, Owned
  <2>x. {r} \in SUBSET Refs /\ \A x \in {r} : a.heap[x] \in Bundles  BY <2>3
  <2>4. /\ f \in AgentState
        /\ \A x \in Refs \ {r} : SameObject(f, a, x)
        /\ CanSend(a, r) => SentOut(f, a, r)
        /\ ~ CanSend(a, r) => KeptBack(f, a, r)
    BY <2>2, <2>x, ForwardEffect
  <2>5. Forwarded(a.heap[r]).ret # {}
    <3>1. Forwarded(a.heap[r]).ret = {CA} \ {DP, FP}  BY <2>3, ForwardedTyped
    <3>2. CA \notin {DP, FP}  BY DEF CA, DP, FP
    <3> QED BY <3>1, <3>2
  <2>6. s \in f.store  BY <1>r, <2>2, <2>4, <2>5 DEF SameObject, SentOut, KeptBack
  <2> QED BY <2>1, <2>4, <2>6, CollectEffect
<1>11. CASE Configure
  <2>1. {"none", "passive", "active"} = Registration  BY DEF Registration
  <2> QED BY <1>1, <1>2, <1>3, <1>11, <2>1
          DEF Configure, Register, Unregister, Bind, Close
<1>12. CASE Application  BY <1>4, <1>5, <1>12 DEF Application, CustodyEndsDuly
<1>13. CASE Network  BY <1>6, <1>7, <1>13 DEF Network, CustodyEndsDuly
<1>14. CASE Timer  BY <1>8, <1>9, <1>14 DEF Timer, CustodyEndsDuly
<1> QED BY <1>11, <1>12, <1>13, <1>14 DEF Next

(* ClaReady on a ready CLA hands over all that waits for it, and clears    *)
(* the mark of each such bundle.                                           *)
LEMMA ClaReadyEmpties ==
  ASSUME AgentInv(agent), NEW c \in Clas, ClaReady(c), agent.ready[c]
  PROVE  /\ GetForwardPendingBundles(agent', c) = {}
         /\ \A r \in GetForwardPendingBundles(agent, c) :
              agent.heap[r].size > 0 => agent'.sent[r] # <<>>
<1> DEFINE q == Quiet(agent)
           P == GetForwardPendingBundles(agent, c)
           f == Forward(q, P)
<1>1. /\ agent \in AgentState /\ q \in AgentState /\ SameNode(q, agent)
      /\ q.heap = agent.heap /\ q.store = agent.store
  BY QuietEffect DEF AgentInv
<1>2. agent' = Collect(f)  BY DEF ClaReady
<1> HIDE DEF q
<1>3. /\ P \in SUBSET Refs
      /\ \A r \in agent.store : r \in P <=> /\ FP \in agent.heap[r].ret
                                            /\ agent.route[agent.heap[r].dst] = c
      /\ \A r \in P : r \in agent.store /\ agent.heap[r] \in Bundles
  BY <1>1 DEF GetForwardPendingBundles, OutgoingCla, AgentState, AgentInv, Owned
<1>4. \A r \in P : CanSend(q, r)
  BY <1>1, <1>3, AgentAssumption DEF CanSend, OutgoingCla, SameNode
<1> HIDE DEF P
<1>5. /\ f \in AgentState /\ SameNode(f, q)
      /\ \A x \in Refs \ P : SameObject(f, q, x)
      /\ \A x \in P : SentOut(f, q, x)
  BY <1>1, <1>3, <1>4, ForwardEffect
<1> HIDE DEF f
<1>6. /\ SameNode(agent', f) /\ agent'.store = f.store /\ agent'.sent = f.sent
      /\ \A r \in f.store : agent'.heap[r] = f.heap[r]
  BY <1>2, <1>5, CollectEffect
<1>7. agent'.route = agent.route  BY <1>1, <1>5, <1>6 DEF SameNode
<1>8. ASSUME NEW r \in GetForwardPendingBundles(agent', c) PROVE FALSE
  <2>1. /\ r \in f.store /\ FP \in f.heap[r].ret /\ agent.route[f.heap[r].dst] = c
    BY <1>6, <1>7 DEF GetForwardPendingBundles, OutgoingCla
  <2>2. r \in Refs  BY <1>5, <2>1 DEF AgentState
  <2>3. CASE r \in P
    <3>1. f.heap[r].ret = q.heap[r].ret \ {DP, FP}
      BY <1>1, <1>3, <1>5, <2>3, ForwardedTyped DEF SentOut
    <3> QED BY <2>1, <3>1
  <2>4. CASE r \notin P
    <3>1. r \in q.store /\ f.heap[r] = q.heap[r]  BY <1>5, <2>1, <2>2, <2>4 DEF SameObject
    <3> QED BY <1>1, <1>3, <2>1, <2>4, <3>1
  <2> QED BY <2>3, <2>4
<1>9. ASSUME NEW r \in P, agent.heap[r].size > 0 PROVE agent'.sent[r] # <<>>
  <2> DEFINE b == agent.heap[r]
             n == Pieces(b)
  <2>1. b \in Bundles /\ b.size \in Nat /\ b.size > 0 /\ BundleSize \in Nat \ {0}
    BY <1>3, <1>9, BundleAssumption DEF Bundles
  <2>2. agent'.sent[r] = Transmission(b)  BY <1>1, <1>5, <1>6 DEF SentOut
  <2>3. n \in Nat /\ n > 0
    <3>1. n = (b.size + BundleSize - 1) \div BundleSize  BY DEF Pieces
    <3> HIDE DEF n, b
    <3>2. RoundedUp(b.size, BundleSize, n)  BY <2>1, <3>1, PiecesBound, Zenon
    <3> QED BY <2>1, <3>2 DEF RoundedUp
  <2>4. Len(Transmission(b)) = n  BY <2>3 DEF Transmission
  <2> HIDE DEF n, b
  <2>5. Transmission(b) # <<>>  BY <2>3, <2>4
  <2> QED BY <2>2, <2>5
<1> QED BY <1>8, <1>9 DEF P

(* The inductive invariant holds in every state of every agent, whatever   *)
(* the endpoints, CLAs, routes, messages, arriving bundles and the number  *)
(* of objects.                                                             *)
THEOREM AgentInvariant == Spec => []AgentInv(agent)
<1>1. AgentInv(agent) /\ [Next]_vars => AgentInv(agent)'
  BY NextInv
<1> QED BY InitInv, <1>1, PTL DEF Spec

(* The strengthened invariant holds in every state.                        *)
THEOREM WholeInvariant == Spec => []WholeInv(agent)
<1>1. AgentInv(agent) /\ WholeInv(agent) /\ [Next]_vars => WholeInv(agent)'
  BY NextWhole
<1> QED BY InitWhole, AgentInvariant, <1>1, PTL DEF Spec

(* The agent's state has its type (Send, Forward, ProcessBundle and the    *)
(* event handlers).                                                        *)
THEOREM TypeCorrect == Spec => []TypeOK
<1>1. WholeInv(agent) => TypeOK  BY DEF WholeInv, TypeOK
<1> QED BY WholeInvariant, <1>1, PTL

(* Scheduled events run on live objects, belong to bundles that need them  *)
(* and are never orphaned (Forward's nextRetrans, BundleStore's            *)
(* expireEvent).                                                           *)
THEOREM EventsOwned == Spec => []EventsAreOwned
<1>1. AgentInv(agent) => EventsAreOwned
  <2> SUFFICES ASSUME AgentInv(agent) PROVE EventsAreOwned  OBVIOUS
  <2>1. ASSUME NEW r \in agent.retrans
        PROVE  agent.heap[r] # NoBundle /\ agent.heap[r].custody /\ agent.heap[r].ret = {CA}
    <3>1. Owned(agent, r)  BY DEF AgentInv, AgentState
    <3> QED BY <3>1, RefsAssumption DEF Owned
  <2>2. agent.expiry = {r \in agent.store : agent.heap[r].life = "finite"}
    <3>1. agent.expiry \subseteq Refs /\ agent.store \subseteq Refs  BY DEF AgentInv, AgentState
    <3>2. \A r \in Refs : r \in agent.expiry <=> r \in agent.store /\ agent.heap[r].life = "finite"
      BY DEF AgentInv, Owned
    <3> QED BY <3>1, <3>2
  <2> QED BY <2>1, <2>2 DEF EventsAreOwned, AgentInv
<1> QED BY AgentInvariant, <1>1, PTL

(* A stored bundle in custody always has exactly one trigger for its next  *)
(* transmission: FORWARD_PENDING, or a scheduled retransmission (Send,     *)
(* Forward, ClaReady).                                                     *)
THEOREM CustodyRetried == Spec => []CustodyIsRetried
<1>1. AgentInv(agent) => CustodyIsRetried
  BY DEF AgentInv, AgentState, Owned, CustodyIsRetried
<1> QED BY AgentInvariant, <1>1, PTL

(* A stored bundle has a reason to be kept (Forward's wrap-up, Deliver).   *)
THEOREM RetentionJustified == Spec => []RetentionIsJustified
<1>1. AgentInv(agent) => RetentionIsJustified
  BY DEF AgentInv, AgentState, Owned, RetentionIsJustified, Constraints
<1> QED BY AgentInvariant, <1>1, PTL

(* The bundles handed to a CLA for one ADU cut it without gap or overlap   *)
(* (the Forward loop), whatever was joined in the store in the meantime.   *)
THEOREM TransmissionsWhole == Spec => []TransmissionIsWhole
<1>1. WholeInv(agent) => TransmissionIsWhole
  <2> SUFFICES ASSUME WholeInv(agent), NEW r \in Refs,
                      NEW pieces, pieces = agent.sent[r], pieces # <<>>
               PROVE  /\ \A k \in 1..Len(pieces) :
                           /\ pieces[k].size \in 1..BundleSize
                           /\ pieces[k].frag = (Len(pieces) > 1)
                           /\ pieces[k].off = IF k = 1 THEN 0 ELSE End(pieces[k - 1])
                      /\ End(pieces[Len(pieces)]) = pieces[1].aduLen
    BY DEF TransmissionIsWhole
  <2>1. PICK b \in Bundles : b.size = b.aduLen /\ pieces = Transmission(b)
    BY DEF WholeInv, SentWhole
  <2> QED BY <2>1, TransmissionWhole
<1> QED BY WholeInvariant, <1>1, PTL

(* A bundle in custody is given up only when it expires, is received, is   *)
(* acknowledged to its last byte, or is taken in by a fragment of its ADU  *)
(* that is delivered here (Remove and its callers).                        *)
THEOREM CustodyKeepsBundles == Spec => CustodyIsKept
<1> DEFINE Kept ==
      \A r \in Refs :
        LeavesCustody(r) =>
          \/ CustodyEndsDuly(r)
          \/ \E b \in Arrivals : Absorbs(b, r) /\ Arrives(b)
<1>1. AgentInv(agent) /\ WholeInv(agent) /\ [Next]_vars => [Kept]_vars
  <2> SUFFICES ASSUME AgentInv(agent), WholeInv(agent), Next PROVE Kept
    OBVIOUS
  <2> QED BY NextKeepsCustody DEF LeavesCustody
<1>2. CustodyIsKept <=> [][Kept]_vars  BY DEF CustodyIsKept
<1> QED BY AgentInvariant, WholeInvariant, <1>1, <1>2, PTL DEF Spec

(* ClaReady on a ready CLA leaves no bundle behind that waits for it.      *)
THEOREM ClaReadyDrainsCla == Spec => ClaReadyDrains
<1> DEFINE Drains ==
      \A c \in Clas :
        agent.ready[c] /\ ClaReady(c) =>
          /\ GetForwardPendingBundles(agent', c) = {}
          /\ \A r \in GetForwardPendingBundles(agent, c) :
               agent.heap[r].size > 0 => agent'.sent[r] # <<>>
<1>1. AgentInv(agent) => [Drains]_vars
  BY ClaReadyEmpties
<1>2. ClaReadyDrains <=> [][Drains]_vars  BY DEF ClaReadyDrains
<1> QED BY AgentInvariant, <1>1, <1>2, PTL DEF Spec
=============================================================================
