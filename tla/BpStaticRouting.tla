--------------------------- MODULE BpStaticRouting ---------------------------
(***************************************************************************)
(* The route table of BpStaticRoutingAgent and what it answers.            *)
(*                                                                         *)
(* m_routes maps a destination to a list of routes in the order they were  *)
(* added; a destination without an entry is one with the empty list here,  *)
(* because an entry is made with its first route and lists only grow.      *)
(* Every answer is taken from the first route that is up.                  *)
(***************************************************************************)
EXTENDS Integers, Sequences

CONSTANTS
  Eids, defaultEid,      \* endpoints; dtn:none is the answer for "no next hop"
  Clas, NoCla,           \* convergence layers; the null pointer
  Addresses, NoAddress,  \* socket addresses; 127.0.0.1 with port 0
  Notes                  \* notes that tell apart routes with the same next hop

ASSUME RoutingAssumption ==
  /\ defaultEid \in Eids
  /\ NoCla \notin Clas
  /\ NoAddress \notin Addresses

(* struct dtnRoute; the destination is the key of the map.                 *)
Route == [nxtHop : Eids, up : BOOLEAN, addr : Addresses, cla : Clas, note : Notes]

RouteTable == [Eids -> Seq(Route)]

----------------------------------------------------------------------------
AddRoute(routes, dst, r) == [routes EXCEPT ![dst] = Append(@, r)]

(* UpRoute and DownRoute change the first route to nxt, or the first with  *)
(* the note that is given; without a match nothing changes.  A null note   *)
(* is any note.                                                            *)
Matches(routes, dst, nxt, notes) ==
  {i \in 1..Len(routes[dst]) : routes[dst][i].nxtHop = nxt /\ routes[dst][i].note \in notes}

SetRoute(routes, dst, nxt, notes, up) ==
  LET first(i) == \A j \in Matches(routes, dst, nxt, notes) : i <= j
  IN  [routes EXCEPT ![dst] = [i \in 1..Len(@) |->
        IF i \in Matches(routes, dst, nxt, notes) /\ first(i)
        THEN [@[i] EXCEPT !.up = up] ELSE @[i]]]

UpRoute(routes, dst, nxt, notes) == SetRoute(routes, dst, nxt, notes, TRUE)
DownRoute(routes, dst, nxt, notes) == SetRoute(routes, dst, nxt, notes, FALSE)

----------------------------------------------------------------------------
(* The positions of routes that are up, and the first of them.             *)
UpRoutes(routes, dst) == {i \in 1..Len(routes[dst]) : routes[dst][i].up}

FirstUp(routes, dst) ==
  routes[dst][CHOOSE i \in UpRoutes(routes, dst) :
                 \A j \in UpRoutes(routes, dst) : i <= j]

\* Mutant of NextHopEid: a route that is down is an answer.
NextHopEidDown(routes, dst) ==
  IF routes[dst] = <<>> THEN defaultEid ELSE routes[dst][1].nxtHop
NextHopEid(routes, dst) ==
  IF UpRoutes(routes, dst) = {} THEN defaultEid ELSE FirstUp(routes, dst).nxtHop

NextHopCla(routes, eid) ==
  IF UpRoutes(routes, eid) = {} THEN NoCla ELSE FirstUp(routes, eid).cla

GetRoute(routes, eid) ==
  IF UpRoutes(routes, eid) = {} THEN NoAddress ELSE FirstUp(routes, eid).addr

(* BpAgent::OutgoingCla: the CLA of the route to the next hop, which is    *)
(* looked up as a destination of its own.                                  *)
OutgoingCla(routes, dst) ==
  LET nextHop == NextHopEid(routes, dst)
  IN  IF nextHop = defaultEid THEN NoCla ELSE NextHopCla(routes, nextHop)
=============================================================================
