--------------------------- MODULE MCBpClaSockets ---------------------------
(***************************************************************************)
(* Values for BpClaSockets: two local endpoints, one with a route (and so  *)
(* a port) of its own, and two remote ones, far behind near.               *)
(***************************************************************************)
EXTENDS BpClaSockets

CONSTANTS none, me, app, near, far, c1, c2, home, hop1, hop2, n1, n2

MCEids == {none, me, app, near, far}
MCPort == [a \in {home, hop1, hop2} |-> IF a = home THEN 5000 ELSE 4556]

AllTcp == [c \in {c1, c2} |-> "Tcp"]
AllUdp == [c \in {c1, c2} |-> "Udp"]
OneCla == <<c1>>

RouteTo(nxt, up, addr, cla, note) ==
  [nxtHop |-> nxt, up |-> up, addr |-> addr, cla |-> cla, note |-> note]

HomeRoutes == [e \in MCEids |-> IF e = app THEN <<RouteTo(app, TRUE, home, c1, n1)>> ELSE <<>>]

NearRoutes == {<<near, RouteTo(near, TRUE, hop1, c1, n1)>>,
               <<near, RouteTo(near, FALSE, hop2, c2, n2)>>}
FarRoutes == {<<far, RouteTo(near, TRUE, hop1, c1, n1)>>}
RemoteRoutes == NearRoutes \cup FarRoutes
NoRoutes == {}

(* The theorem about active endpoints speaks of the instances with TCP.    *)
ASSUME InstanceAssumption == Transport = AllTcp => OwnPorts
=============================================================================
