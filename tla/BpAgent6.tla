------------------------------ MODULE BpAgent6 ------------------------------
(***************************************************************************)
(* One version 6 bundle protocol agent: BpAgent and BpAgent6 with their    *)
(* bundle store, between applications, the convergence layers (CLAs), the  *)
(* routing agent and the simulator's event queue.                          *)
(*                                                                         *)
(* The simulator runs one event at a time, so a handler with everything it *)
(* calls is one step.  The interleavings are those of application calls,   *)
(* arriving bundles, expiring lifetimes and custody retransmission timers. *)
(* Clocks are left out: a scheduled event may fire in any later step, and  *)
(* a bundle with a finite lifetime may be expired when it is stored.       *)
(*                                                                         *)
(* The actions are what the environment can start; what a handler does is  *)
(* in BpHandlers6.                                                         *)
(***************************************************************************)
EXTENDS BpHandlers6

CONSTANTS
  Self,          \* m_eid
  LocalEids,     \* endpoints that applications of this node register
  Routes,        \* what the routing agent may answer: functions to Clas and NoCla
  Messages,      \* arguments an application may pass to Send
  Arrivals,      \* bundles the convergence layers may hand to ProcessBundle
  MaxSeq         \* bound on sequence numbers given out, for model checking

ASSUME AgentAssumption ==
  /\ NoCla \notin Clas
  /\ Self \in Eids \ {defaultEid}
  /\ LocalEids \subseteq Eids
  /\ Routes \subseteq [Eids -> Clas \cup {NoCla}]
  /\ Messages \subseteq SendArguments
  /\ Arrivals \subseteq Bundles
  /\ \A b \in Arrivals : IsReceived(b)
  /\ MaxSeq \in Nat

VARIABLE agent
vars == <<agent>>

----------------------------------------------------------------------------
(* Actions                                                                 *)

(* Calls that touch the registrations, the CLAs' readiness and the routes. *)
(* The receive sockets opened and closed on the way belong to the CLAs.    *)
SetRegistration(eid, state) ==
  agent' = [Quiet(agent) EXCEPT !.reg[eid] = state]

(* Registering an endpoint twice aborts the program; StartBpAgent is       *)
(* Register for Self, StopBpAgent is Close for Self.                       *)
Register(eid, state) ==
  /\ ~ IsNodeMember(agent, eid)
  /\ SetRegistration(eid, state)

Unregister(eid) ==
  /\ IsNodeMember(agent, eid)
  /\ SetRegistration(eid, "passive")

Bind(eid) ==
  /\ IsNodeMember(agent, eid)
  /\ SetRegistration(eid, "active")

Close(eid) ==
  /\ IsNodeMember(agent, eid)
  /\ SetRegistration(eid, "none")

SetReady(cla, ready) ==
  /\ agent.ready[cla] # ready
  /\ agent' = [Quiet(agent) EXCEPT !.ready[cla] = ready]

(* The routing agent changes its answers.                                  *)
ChangeRoute(route) ==
  /\ agent.route # route
  /\ agent' = [Quiet(agent) EXCEPT !.route = route]

(* An application sends.  Nothing has come yet of an ADU that has yet to   *)
(* be sent.                                                                *)
AppSend(m, r, late) ==
  /\ agent.seq < MaxSeq
  /\ GetBundles(agent, m.src, agent.seq) = {}
  /\ r \in Free(agent)
  /\ m.src = defaultEid \/ IsNodeMember(agent, m.src)
  /\ agent' = Collect(Send(Quiet(agent), r, m, late))

(* An application receives; a call that finds nothing changes nothing.     *)
Receive(eid) ==
  \E r \in Receivable(agent, eid) : agent' = Collect(Remove(Quiet(agent), {r}))

(* Source and id name one ADU, which has one length; one that is in        *)
(* custody here was transmitted before any of it came.                     *)
IsOfOneAdu(b) ==
  \A s \in GetBundles(agent, b.src, b.id) :
    /\ agent.heap[s].aduLen = b.aduLen
    /\ CA \in agent.heap[s].ret => AfterTransmission(agent.heap[s]) = agent.heap[s]

(* A CLA hands a bundle over.  Fragments are followed only where they are  *)
(* delivered to an application (see the README for the two other cases).   *)
Arrive(b, r, late, r2, late2) ==
  /\ IsOfOneAdu(b)
  /\ b.custody => agent.seq < MaxSeq
  /\ {r, r2} \subseteq Free(agent) /\ r # r2
  /\ b.frag => b.dst # agent.eid /\ IsNodeMember(agent, b.dst)
  /\ \E outcome \in ProcessBundle(Quiet(agent), b, r, late, r2, late2) :
       agent' = Collect(outcome)

(* The simulator fires a scheduled event.                                  *)
Expire(r) ==
  /\ r \in agent.expiry
  /\ agent' = Collect(Remove(Quiet(agent), {r}))

Retransmit(r) ==
  /\ r \in agent.retrans
  /\ agent' = Collect(Forward([Quiet(agent) EXCEPT !.retrans = @ \ {r}], {r}))

ClaReady(cla) ==
  agent' = Collect(Forward(Quiet(agent), GetForwardPendingBundles(agent, cla)))

----------------------------------------------------------------------------
Init ==
  \E route \in Routes :
    agent = [eid |-> Self,
             reg |-> [e \in Eids |-> "none"],
             ready |-> [c \in Clas |-> FALSE],
             route |-> route,
             seq |-> 0,
             heap |-> [r \in Refs |-> NoBundle],
             store |-> {}, expiry |-> {}, retrans |-> {}, lost |-> {},
             sent |-> [r \in Refs |-> <<>>]]

Configure ==
  \/ \E e \in LocalEids, s \in {"passive", "active"} : Register(e, s)
  \/ \E e \in LocalEids : Unregister(e) \/ Bind(e) \/ Close(e)
  \/ \E c \in Clas, b \in BOOLEAN : SetReady(c, b)
  \/ \E route \in Routes : ChangeRoute(route)

Application ==
  \/ \E m \in Messages, r \in Refs, late \in BOOLEAN : AppSend(m, r, late)
  \/ \E e \in Eids : Receive(e)

Network ==
  \/ \E b \in Arrivals, r, r2 \in Refs, late, late2 \in BOOLEAN :
       Arrive(b, r, late, r2, late2)
  \/ \E c \in Clas : ClaReady(c)

Timer == \E r \in Refs : Expire(r) \/ Retransmit(r)

Next == Configure \/ Application \/ Network \/ Timer

(* The simulator runs every event it has scheduled, unless it is           *)
(* cancelled.                                                              *)
Fairness == \A r \in Refs : WF_vars(Expire(r)) /\ WF_vars(Retransmit(r))

Spec == Init /\ [][Next]_vars
FairSpec == Spec /\ Fairness

----------------------------------------------------------------------------
(* The agent's state has its type, and its endpoint stays.                 *)
TypeOK == agent \in AgentState /\ agent.eid = Self

(* Forward, BundleStore::Expire: an event runs on a bundle object that     *)
(* still has its ADU.  A retransmission is scheduled only for a bundle in  *)
(* custody that waits for nothing else, an expiry only for a stored        *)
(* bundle with a finite lifetime (and for each of those), and no scheduled *)
(* event has had its EventId overwritten, beyond the reach of ClearEvents. *)
EventsAreOwned ==
  /\ agent.lost = {}
  /\ \A r \in agent.retrans :
       /\ agent.heap[r] # NoBundle
       /\ agent.heap[r].custody
       /\ agent.heap[r].ret = {CA}
  /\ agent.expiry = {r \in agent.store : agent.heap[r].life = "finite"}

(* Send, Forward, ClaReady: as long as a bundle accepted for custody is    *)
(* stored, exactly one thing will make the agent try it again: the         *)
(* FORWARD_PENDING flag that ClaReady looks for, or a scheduled            *)
(* retransmission.                                                         *)
CustodyIsRetried ==
  \A r \in agent.store :
    CA \in agent.heap[r].ret =>
      (FP \in agent.heap[r].ret) # (r \in agent.retrans)

(* Forward step 6, Deliver: a stored bundle has a reason to be kept: it    *)
(* waits for the application alone (DISPATCH_PENDING and nothing else), or *)
(* for a CLA, or for its custody to be released.                           *)
RetentionIsJustified ==
  \A r \in agent.store :
    agent.heap[r].ret \in {{DP}, {FP}, {CA}, {FP, CA}}

(* The Forward loop: the bundles handed to a CLA for one ADU have          *)
(* payloads of one to BundleSize bytes that follow on each other from the  *)
(* ADU's first byte to its last, and carry fragment flags and offsets only *)
(* if there are several.                                                   *)
TransmissionIsWhole ==
  \A r \in Refs :
    LET pieces == agent.sent[r] IN
    pieces # <<>> =>
      /\ \A k \in 1..Len(pieces) :
           /\ pieces[k].size \in 1..BundleSize
           /\ pieces[k].frag = (Len(pieces) > 1)
           /\ pieces[k].off = IF k = 1 THEN 0 ELSE End(pieces[k - 1])
      /\ End(pieces[Len(pieces)]) = pieces[1].aduLen

(* ClaReady on a ready CLA leaves nothing behind that was waiting for it,  *)
(* and hands every such bundle to the CLA.                                 *)
ClaReadyDrains ==
  [][\A c \in Clas :
       agent.ready[c] /\ ClaReady(c) =>
         /\ GetForwardPendingBundles(agent', c) = {}
         /\ \A r \in GetForwardPendingBundles(agent, c) :
              agent.heap[r].size > 0 => agent'.sent[r] # <<>>]_vars

(* EnqueueForDeliveryToApplication, Remove: a bundle in custody leaves the *)
(* store only when it expires, when an application on this node takes it,  *)
(* on a custody signal that, with what was acknowledged before,            *)
(* acknowledges its every byte, or into a fragment of its ADU that is      *)
(* delivered on this node and reaches, with what is stored of the ADU, to  *)
(* the offset at which Forward left the bundle.                            *)
Acknowledged(b, signal) ==
  {i \in 0..(b.aduLen - 1) :
     \/ b.acks # NoAcks /\ b.acks[1] <= i /\ i < b.acks[2]
     \/ signal.off <= i /\ i < signal.off + signal.len}

Releases(b, r) ==
  /\ b.content # AppData
  /\ b.content.src = agent.heap[r].src /\ b.content.id = agent.heap[r].id
  /\ Acknowledged(agent.heap[r], b.content) = 0..(agent.heap[r].aduLen - 1)

Holds(b, i) == b.off <= i /\ i < End(b)

Absorbs(b, r) ==
  /\ b.frag /\ agent.reg[b.dst] = "active"
  /\ b.src = agent.heap[r].src /\ b.id = agent.heap[r].id
  /\ End(b) <= agent.heap[r].off
  /\ \A i \in End(b) .. (agent.heap[r].off - 1) :
       \E s \in GetBundles(agent, b.src, b.id) : Holds(agent.heap[s], i)

Arrives(b) ==
  \E r, r2 \in Refs, late, late2 \in BOOLEAN : Arrive(b, r, late, r2, late2)

LeavesCustody(r) ==
  r \in agent.store /\ CA \in agent.heap[r].ret /\ r \notin agent'.store

CustodyEndsDuly(r) ==
  \/ Expire(r)
  \/ Receive(agent.heap[r].dst)
  \/ \E b \in Arrivals : b.dst = Self /\ Releases(b, r) /\ Arrives(b)

CustodyIsKept ==
  [][\A r \in Refs :
       LeavesCustody(r) =>
         \/ CustodyEndsDuly(r)
         \/ \E b \in Arrivals : Absorbs(b, r) /\ Arrives(b)]_vars

(* BundleStore::Store and Expire: a stored bundle with a finite lifetime   *)
(* leaves the store in the end, whatever its custody and its routes.       *)
FiniteLivesEnd ==
  \A r \in Refs : (r \in agent.store /\ agent.heap[r].life = "finite")
                     ~> (r \notin agent.store)

(* Forward's retransmission timer: a bundle that stays in custody, with a  *)
(* ready CLA and not waiting for ClaReady, is transmitted again and again. *)
CustodyPersists ==
  \A r \in Refs :
    <>[](/\ r \in agent.store
         /\ CA \in agent.heap[r].ret /\ FP \notin agent.heap[r].ret
         /\ CanSend(agent, r))
      => []<>(agent.sent[r] # <<>>)

(* The acks of MergeAck: a custodian that can be reached gets rid of a     *)
(* fragmented ADU when the signal of each piece comes again and again, in  *)
(* whatever order, though signals that are not adjacent to what is         *)
(* acknowledged are forgotten.  That they come is up to the network, and   *)
(* so a premise here and no fairness of the agent.                         *)
CustodyEnds ==
  (\A b \in {s \in Arrivals : s.content # AppData} : SF_vars(Arrives(b)))
    => \A r \in Refs :
         ~ <>[](/\ r \in agent.store /\ CA \in agent.heap[r].ret
                /\ agent.reg[Self] = "active")

----------------------------------------------------------------------------
(* What comments say, and the code does not do.                            *)

(* bp-bundle-store.cc:36, "Create an event to destroy the bundle when it   *)
(* expires": a bundle with a finite lifetime is not retransmitted for      *)
(* ever.                                                                   *)
RetransmissionsEnd ==
  \A r \in Refs : (r \in agent.retrans /\ agent.heap[r].life = "finite")
                     ~> (r \notin agent.retrans)
=============================================================================
