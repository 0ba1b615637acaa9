----------------------------- MODULE BpHandlers6 -----------------------------
(***************************************************************************)
(* The handlers of a version 6 agent (BpAgent, BpAgent6) as functions on   *)
(* agent states, composed as the code calls them: a set of outcomes where  *)
(* the order of equal keys in the store is left open.  The module has no   *)
(* state of its own: BpAgent6 runs one agent, BpNetwork several.           *)
(***************************************************************************)
EXTENDS BundleStore

CONSTANTS Clas, NoCla   \* the convergence layers; NoCla is the null pointer

(* What Send is called with; a custody signal has the size of one byte.    *)
SendArguments ==
  [src : Eids, dst : Eids, size : Nat, content : Contents,
   life : Lifetimes, custody : BOOLEAN, prio : Nat]

(* A bundle fresh from a CLA has no retention constraints and no acks yet, *)
(* carries at least one byte, and is flagged as a fragment when it is not  *)
(* the whole ADU.                                                          *)
IsReceived(b) ==
  /\ b.ret = {} /\ b.acks = NoAcks
  /\ b.size > 0 /\ b.off + b.size <= b.aduLen
  /\ b.frag = (b.size < b.aduLen)

(* Registration of an endpoint: absent, or present with state false or     *)
(* true.                                                                   *)
Registration == {"none", "passive", "active"}

(* The state of an agent.                                                 *)
AgentState ==
  [eid : Eids,                               \* m_eid
   reg : [Eids -> Registration],             \* BpRegistration
   ready : [Clas -> BOOLEAN],                \* IsReady of each CLA
   route : [Eids -> Clas \cup {NoCla}],      \* what the routing agent answers
   seq : Nat,                                \* m_seq
   heap : [Refs -> Bundles \cup {NoBundle}],
   store : SUBSET Refs,
   expiry : SUBSET Refs,
   retrans : SUBSET Refs,
   lost : SUBSET Refs,   \* objects with a scheduled Forward whose EventId was overwritten
   sent : [Refs -> Seq(Bundles)]]            \* handed to a CLA by the last step

----------------------------------------------------------------------------
(* Helpers                                                                 *)

IsNodeMember(a, eid) == a.reg[eid] # "none"

OutgoingCla(a, dst) == a.route[dst]

CanSend(a, r) ==
  LET cla == OutgoingCla(a, a.heap[r].dst) IN cla # NoCla /\ a.ready[cla]

Quiet(a) == [a EXCEPT !.sent = [r \in Refs |-> <<>>]]

----------------------------------------------------------------------------
(* Forward, for every object of R (their forwardings do not interact).     *)
(* Without a ready CLA the bundle keeps FORWARD_PENDING.  Otherwise a      *)
(* retransmission is scheduled if custody transfer is requested, all       *)
(* pieces are handed to the CLA, and the bundle is removed unless a        *)
(* constraint is left.                                                     *)
\* Mutant of Contraindicated: the bundle is not marked for ClaReady.
ContraindicatedUnmarked(b) == [b EXCEPT !.ret = @ \ {DP}]
Contraindicated(b) == [b EXCEPT !.ret = (@ \ {DP}) \cup {FP}]

\* Mutants of Forwarded: one of the two constraints is not cleared.
ForwardedDispatchPending(b) == [AfterTransmission(b) EXCEPT !.ret = @ \ {FP}]
ForwardedForwardPending(b) == [AfterTransmission(b) EXCEPT !.ret = @ \ {DP}]
Forwarded(b) == [AfterTransmission(b) EXCEPT !.ret = @ \ {DP, FP}]

\* Mutant of Armed: only the first transmission schedules the next one.
ArmedOnce(a, R) == {r \in R : a.heap[r].custody /\ DP \in a.heap[r].ret}
Armed(a, R) == {r \in R : a.heap[r].custody}

Forward(a, R) ==
  LET go    == {r \in R : CanSend(a, r)}
      done  == {r \in go : Forwarded(a.heap[r]).ret = {}}
      after == [a EXCEPT
        !.heap = [r \in Refs |-> IF r \in go THEN Forwarded(a.heap[r])
                                 ELSE IF r \in R THEN Contraindicated(a.heap[r])
                                 ELSE a.heap[r]],
        !.retrans = @ \cup Armed(a, go),
        !.lost = @ \cup (Armed(a, go) \cap a.retrans),
        !.sent = [r \in Refs |-> IF r \in go THEN Transmission(a.heap[r]) ELSE @[r]]]
  IN  Remove(after, done)

(* ClaReady retries every bundle that is pending for the CLA.              *)
GetForwardPendingBundles(a, cla) ==
  {r \in a.store : FP \in a.heap[r].ret /\ OutgoingCla(a, a.heap[r].dst) = cla}

(* Send: the source must be registered, unless it is the null endpoint.    *)
(* Custody is always accepted when it is requested.                        *)
NewBundle(a, m) ==
  [src |-> m.src, dst |-> m.dst, id |-> a.seq, prio |-> m.prio, life |-> m.life,
   custody |-> m.custody, custEid |-> IF m.custody THEN a.eid ELSE defaultEid,
   frag |-> FALSE, off |-> 0, aduLen |-> m.size, size |-> m.size,
   content |-> m.content, acks |-> NoAcks,
   ret |-> IF m.custody THEN {DP, CA} ELSE {DP}]

Send(a, r, m, late) ==
  IF m.src # defaultEid /\ ~ IsNodeMember(a, m.src) THEN a
  ELSE Forward(Store([a EXCEPT !.seq = @ + 1], r, NewBundle(a, m), late), {r})

(* SendCustodySignal: a bundle from the agent's own endpoint to the        *)
(* custodian, with the lifetime of the bundle it answers.                  *)
CustodySignal(b) ==
  [src |-> b.src, id |-> b.id, off |-> b.off, len |-> IF b.frag THEN b.size ELSE 0]

SendCustodySignal(a, r, b, late) ==
  Send(a, r, [src |-> a.eid, dst |-> b.custEid, size |-> 1, life |-> b.life,
              content |-> CustodySignal(b), custody |-> FALSE, prio |-> 0], late)

----------------------------------------------------------------------------
(* EnqueueForDeliveryToApplication                                         *)

(* A bundle for the agent's own endpoint is taken for an administrative    *)
(* record, whatever it is, and removed.  A custody signal is merged into   *)
(* the acks of the bundle it names, which is removed once fully acked.     *)
Acknowledge(a, s, signal) ==
  LET acked == [a EXCEPT !.heap[s].acks =
                  MergeAck(@, <<signal.off, signal.off + signal.len>>)]
  IN  IF FullyAcked(acked.heap[s]) THEN Remove(acked, {s}) ELSE acked

AdminRecord(a, content) ==
  IF content = AppData \/ GetBundles(a, content.src, content.id) = {} THEN {a}
  ELSE {Acknowledge(a, s, content) : s \in GetBundle(a, content.src, content.id)}

End(b) == b.off + b.size

\* Mutant of Resized: complete as soon as the last byte is reached.
ResizedToEnd(b, size) == [b EXCEPT !.size = size, !.frag = @ /\ b.off + size # b.aduLen]
Resized(b, size) == [b EXCEPT !.size = size, !.frag = @ /\ size # b.aduLen]

(* One round of the loop over the bundles of a fragment's ADU.  A visited  *)
(* x that ends where the fragment r begins takes a copy of it, and r is    *)
(* removed; an x that begins where r ends is appended to r and removed.    *)
(* The round compares nothing but offsets and sizes: x may be a whole      *)
(* bundle in custody, at the offset of the last piece transmitted, and r   *)
(* may be removed already, and has the size it has grown to.               *)
\* Mutant of Visit: what r absorbs is erased, and its events are left.
VisitWithoutCancel(d, r, x) ==
  LET b == d.heap[r]
      c == d.heap[x]
  IN  IF b.off = End(c)
      THEN Remove([d EXCEPT !.heap[x] = Resized(c, c.size + b.size)], {r})
      ELSE IF End(b) = c.off
      THEN [d EXCEPT !.heap[r] = Resized(b, b.size + c.size), !.store = @ \ {x}]
      ELSE d
\* Mutant of Visit: r absorbs what begins before its end, too.
VisitOverlapping(d, r, x) ==
  LET b == d.heap[r]
      c == d.heap[x]
  IN  IF b.off = End(c)
      THEN Remove([d EXCEPT !.heap[x] = Resized(c, c.size + b.size)], {r})
      ELSE IF x # r /\ End(b) >= c.off
      THEN Remove([d EXCEPT !.heap[r] = Resized(b, b.size + c.size)], {x})
      ELSE d
Visit(d, r, x) ==
  LET b == d.heap[r]
      c == d.heap[x]
  IN  IF b.off = End(c)
      THEN Remove([d EXCEPT !.heap[x] = Resized(c, c.size + b.size)], {r})
      ELSE IF End(b) = c.off
      THEN Remove([d EXCEPT !.heap[r] = Resized(b, b.size + c.size)], {x})
      ELSE d

(* GetBundles lists the stored bundles of the ADU, r among them if it was  *)
(* stored, in the order of the set.                                        *)
Listings(a, R) ==
  {s \in [1..Cardinality(R) -> R] :
     \A i, j \in 1..Cardinality(R) :
       i < j => s[i] # s[j] /\ ~ Before(a.heap[s[j]], a.heap[s[i]])}

VisitAll(a, r, s) ==
  LET after[k \in 0..Len(s)] == IF k = 0 THEN a ELSE Visit(after[k - 1], r, s[k])
  IN  after[Len(s)]

Coalesce(a, r) ==
  {VisitAll(a, r, s) : s \in Listings(a, GetBundles(a, a.heap[r].src, a.heap[r].id))}

EnqueueForDeliveryToApplication(a, r) ==
  LET b == a.heap[r]
  IN  IF b.dst = a.eid THEN {Remove(d, {r}) : d \in AdminRecord(a, b.content)}
      ELSE IF b.frag THEN Coalesce(a, r)
      ELSE {a}

(* Deliver: nothing is enqueued for a passive registration, yet custody is *)
(* signalled in any case.  The object r2 is for the signal.                *)
Deliver(a, r, r2, late) ==
  LET enqueued == IF a.reg[a.heap[r].dst] = "active"
                  THEN EnqueueForDeliveryToApplication(a, r) ELSE {a}
  IN  {IF d.heap[r].custody THEN SendCustodySignal(d, r2, d.heap[r], late) ELSE d
         : d \in enqueued}

(* ProcessBundle with Dispatch.                                            *)
ProcessBundle(a, b, r, late, r2, late2) ==
  LET stored == Store(a, r, [b EXCEPT !.ret = @ \cup {DP}], late)
  IN  IF IsNodeMember(a, b.dst) THEN Deliver(stored, r, r2, late2)
      ELSE {Forward(stored, {r})}
=============================================================================
