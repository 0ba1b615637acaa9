----------------------------- MODULE BundleStore -----------------------------
(***************************************************************************)
(* The bundle store of an agent and the simulator events that point into   *)
(* it.  A bundle object has an address in Refs.  The part of an agent's    *)
(* state that the store operations touch is                                *)
(*                                                                         *)
(*   a.heap     the bundle objects, NoBundle at an address not in use      *)
(*   a.store    the objects in the set m_store                             *)
(*   a.expiry   the objects whose expireEvent is scheduled                 *)
(*   a.retrans  the objects whose nextRetrans is scheduled                 *)
(*                                                                         *)
(* Operations are functions from an agent state to an agent state, so that *)
(* handlers compose them in the order of the calls.                        *)
(***************************************************************************)
EXTENDS BpBundle, FiniteSets

CONSTANTS Refs, NoBundle

ASSUME RefsAssumption == NoBundle \notin Bundles /\ IsFiniteSet(Refs)

(* Store: a bundle with a finite lifetime gets an expiry event.  One that  *)
(* is expired already (late) is neither scheduled nor inserted, and the    *)
(* caller is not told.                                                     *)
\* Mutant of Store: no expiry event is scheduled.
StoreWithoutExpiry(a, r, b, late) ==
  IF late /\ b.life = "finite" THEN [a EXCEPT !.heap[r] = b]
  ELSE [a EXCEPT !.heap[r] = b, !.store = @ \cup {r}]
Store(a, r, b, late) ==
  LET created == [a EXCEPT !.heap[r] = b]
  IN  IF b.life = "finite"
      THEN IF late THEN created
           ELSE [created EXCEPT !.store = @ \cup {r}, !.expiry = @ \cup {r}]
      ELSE [created EXCEPT !.store = @ \cup {r}]

(* Remove, for every object of R: cancel the events, erase from the store. *)
Remove(a, R) ==
  [a EXCEPT !.store = @ \ R, !.expiry = @ \ R, !.retrans = @ \ R]

(* An object that neither the store nor a scheduled event refers to is out *)
(* of reach of the program from here on.                                   *)
Reachable(a) == a.store \cup a.retrans
Collect(a) ==
  [a EXCEPT !.heap = [r \in Refs |-> IF r \in Reachable(a) THEN a.heap[r] ELSE NoBundle]]

Free(a) == {r \in Refs : a.heap[r] = NoBundle}

----------------------------------------------------------------------------
(* GetBundles: the stored bundles and fragments of bundle (src, id).       *)
GetBundles(a, src, id) ==
  {r \in a.store : a.heap[r].src = src /\ a.heap[r].id = id}

(* The set is ordered by priority, then creation time and sequence number, *)
(* then fragment offset, then source and address (left open here).         *)
Before(b, c) ==
  \/ b.prio < c.prio
  \/ b.prio = c.prio /\ b.id < c.id
  \/ b.prio = c.prio /\ b.id = c.id /\ b.off < c.off

First(a, R) == {r \in R : \A q \in R : ~ Before(a.heap[q], a.heap[r])}

(* GetBundle: the first of them.                                           *)
GetBundle(a, src, id) == First(a, GetBundles(a, src, id))

(* GetAndRemoveBundle with fragOk false: the first stored bundle for eid   *)
(* that is not a fragment.                                                 *)
Receivable(a, eid) ==
  First(a, {r \in a.store : a.heap[r].dst = eid /\ ~ a.heap[r].frag})
=============================================================================
