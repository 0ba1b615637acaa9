---------------------------- MODULE BpClaSockets ----------------------------
(***************************************************************************)
(* The sockets of a node's convergence layers (BpCla, BpTcpCla, BpUdpCla)  *)
(* between the registrations of BpAgent and the routes of the routing      *)
(* agent.                                                                  *)
(*                                                                         *)
(* A socket that listens takes its port on the node for its transport.  It *)
(* stays open until it is closed, whether a CLA has recorded it or not:    *)
(* the transport protocol of the node owns it.  Closing stops it and gives *)
(* the port back.  A socket whose Bind fails never receives and is left    *)
(* out, and so are connections accepted before, which are sockets of their *)
(* own.                                                                    *)
(***************************************************************************)
EXTENDS BpStaticRouting

CONSTANTS
  ClaSeq,       \* m_clas
  Transport,    \* "Tcp" or "Udp" of each CLA
  Port,         \* the port of each address
  InitRoutes,   \* the routes a scenario has set up before anything else
  DefaultPort,  \* DTN_BUNDLE_TCP_PORT and DTN_BUNDLE_UDP_PORT
  LocalEids,    \* endpoints that are registered on this node
  Sources, Destinations,  \* of the bundles that are forwarded
  NewRoutes,    \* routes a scenario may add: pairs of destination and route
  MaxSockets,   \* bound on listening sockets ever opened
  MaxRoutes     \* bound on routes to one destination

ASSUME SocketAssumption ==
  /\ ClaSeq \in Seq(Clas)
  /\ Transport \in [Clas -> {"Tcp", "Udp"}]
  /\ Port \in [Addresses -> Nat \ {0}]
  /\ DefaultPort \in Nat \ {0}
  /\ InitRoutes \in RouteTable
  /\ LocalEids \subseteq Eids /\ Sources \subseteq Eids /\ Destinations \subseteq Eids
  /\ NewRoutes \subseteq Eids \X Route
  /\ MaxSockets \in Nat /\ MaxRoutes \in Nat

VARIABLES
  routes,   \* m_routes of the routing agent
  reg,      \* BpRegistration
  sockets,  \* the listening sockets, in the order they were opened
  recv,     \* m_l4RecvSockets of each CLA: 0, or the socket's position
  send,     \* m_l4SendSockets of each CLA: the address a socket is connected to
  sent      \* the last bundle that Forward gave to a CLA: where it went

vars == <<routes, reg, sockets, recv, send, sent>>

Registration == {"none", "passive", "active"}
Socket == [transport : {"Tcp", "Udp"}, port : Nat \ {0}, open : BOOLEAN]
NoSend == [src |-> defaultEid, dst |-> defaultEid, cla |-> NoCla, to |-> NoAddress]

----------------------------------------------------------------------------
(* The port an endpoint listens on: TCP asks the route to the endpoint,    *)
(* UDP always takes the default.                                           *)
\* Mutant of ListenPort: the answer for "no route", port 0, is not noticed.
ListenPortUnchecked(table, c, eid) ==
  IF Transport[c] = "Udp" THEN DefaultPort
  ELSE IF GetRoute(table, eid) = NoAddress THEN 0 ELSE Port[GetRoute(table, eid)]
ListenPort(table, c, eid) ==
  IF Transport[c] = "Udp" \/ GetRoute(table, eid) = NoAddress THEN DefaultPort
  ELSE Port[GetRoute(table, eid)]

Listening(socks, transport, port) ==
  \E k \in 1..Len(socks) :
    socks[k].open /\ socks[k].transport = transport /\ socks[k].port = port

(* EnableReceive: the socket listens from Listen on; only then does the    *)
(* CLA find that it has a socket recorded for the endpoint already.        *)
(* net holds the sockets and the records, and is handed from CLA to CLA.   *)
\* Mutant of EnableReceive: the record is consulted before a socket is made.
EnableReceiveOnce(net, c, eid) ==
  IF net.recv[c][eid] # 0 \/ Listening(net.sockets, Transport[c], ListenPort(routes, c, eid)) THEN net
  ELSE [sockets |-> Append(net.sockets, [transport |-> Transport[c],
                                         port |-> ListenPort(routes, c, eid), open |-> TRUE]),
        recv |-> [net.recv EXCEPT ![c][eid] = Len(net.sockets) + 1]]
EnableReceive(net, c, eid) ==
  IF Listening(net.sockets, Transport[c], ListenPort(routes, c, eid)) THEN net
  ELSE [sockets |-> Append(net.sockets, [transport |-> Transport[c],
                                         port |-> ListenPort(routes, c, eid), open |-> TRUE]),
        recv |-> [net.recv EXCEPT ![c][eid] = IF @ = 0 THEN Len(net.sockets) + 1 ELSE @]]

(* DisableReceive closes the recorded socket and keeps the record.         *)
DisableReceive(net, c, eid) ==
  IF net.recv[c][eid] = 0 THEN net
  ELSE [net EXCEPT !.sockets[net.recv[c][eid]].open = FALSE]

(* The loops over m_clas in Register, Bind and Unregister.                 *)
EnableAll(eid) ==
  LET after[k \in 0..Len(ClaSeq)] ==
        IF k = 0 THEN [sockets |-> sockets, recv |-> recv]
        ELSE EnableReceive(after[k - 1], ClaSeq[k], eid)
  IN  after[Len(ClaSeq)]

DisableAll(eid) ==
  LET after[k \in 0..Len(ClaSeq)] ==
        IF k = 0 THEN [sockets |-> sockets, recv |-> recv]
        ELSE DisableReceive(after[k - 1], ClaSeq[k], eid)
  IN  after[Len(ClaSeq)]

(* A scenario in which no two local endpoints ever listen on the same port *)
(* of a transport: their own routes give them different ports, and stay as *)
(* they are while the scenario runs.                                       *)
OwnPorts ==
  /\ \A c, d \in Clas, e, f \in LocalEids :
       e # f /\ Transport[c] = Transport[d] =>
         ListenPort(InitRoutes, c, e) # ListenPort(InitRoutes, d, f)
  /\ \A r \in NewRoutes : r[1] \notin LocalEids

SetSockets(net) == sockets' = net.sockets /\ recv' = net.recv
RoomForSockets == Len(sockets) + Len(ClaSeq) <= MaxSockets
----------------------------------------------------------------------------
(* BpAgent: what the CLAs answer is ignored.  A call for an endpoint that  *)
(* is not registered changes nothing.                                      *)
Register(eid, state) ==
  /\ RoomForSockets
  /\ reg[eid] = "none"
  /\ reg' = [reg EXCEPT ![eid] = state]
  /\ IF state = "active" THEN SetSockets(EnableAll(eid)) ELSE UNCHANGED <<sockets, recv>>
  /\ sent' = NoSend
  /\ UNCHANGED <<routes, send>>

Unregister(eid) ==
  /\ reg[eid] # "none"
  /\ reg' = [reg EXCEPT ![eid] = "passive"]
  /\ SetSockets(DisableAll(eid))
  /\ sent' = NoSend
  /\ UNCHANGED <<routes, send>>

Bind(eid) ==
  /\ RoomForSockets
  /\ reg[eid] # "none"
  /\ reg' = [reg EXCEPT ![eid] = "active"]
  /\ SetSockets(EnableAll(eid))
  /\ sent' = NoSend
  /\ UNCHANGED <<routes, send>>

Close(eid) ==
  /\ reg[eid] # "none"
  /\ reg' = [reg EXCEPT ![eid] = "none"]
  /\ sent' = NoSend
  /\ UNCHANGED <<routes, sockets, recv, send>>

(* Forward asks the routing agent twice: for the CLA of the next hop and   *)
(* for the address of the destination.  SendPacket sends on the socket of  *)
(* the bundle's source and connects one only if there is none; Connect may *)
(* fail, which nobody is told.  The CLAs are ready.                        *)
Connected(c, src, dst, connects) ==
  IF send[c][src] # NoAddress THEN send[c][src]
  ELSE IF connects THEN GetRoute(routes, dst) ELSE NoAddress

Forward(src, dst, connects) ==
  LET c == OutgoingCla(routes, dst) IN
  /\ c # NoCla
  /\ LET to == Connected(c, src, dst, connects) IN
     /\ send' = [send EXCEPT ![c][src] = to]
     /\ sent' = [src |-> src, dst |-> dst, cla |-> c, to |-> to]
  /\ UNCHANGED <<routes, reg, sockets, recv>>

(* The scenario changes routes.                                            *)
ChangeRoutes(table) ==
  /\ routes' = table
  /\ sent' = NoSend
  /\ UNCHANGED <<reg, sockets, recv, send>>

Add(dst, r) == Len(routes[dst]) < MaxRoutes /\ ChangeRoutes(AddRoute(routes, dst, r))
Up(dst, nxt, notes) == routes[dst] # <<>> /\ ChangeRoutes(UpRoute(routes, dst, nxt, notes))
Down(dst, nxt, notes) == routes[dst] # <<>> /\ ChangeRoutes(DownRoute(routes, dst, nxt, notes))

----------------------------------------------------------------------------
Init ==
  /\ routes = InitRoutes
  /\ reg = [e \in Eids |-> "none"]
  /\ sockets = <<>>
  /\ recv = [c \in Clas |-> [e \in Eids |-> 0]]
  /\ send = [c \in Clas |-> [e \in Eids |-> NoAddress]]
  /\ sent = NoSend

Registering ==
  \E e \in LocalEids :
    \/ \E s \in {"passive", "active"} : Register(e, s)
    \/ Unregister(e) \/ Bind(e) \/ Close(e)

Sending == \E s \in Sources, d \in Destinations, connects \in BOOLEAN : Forward(s, d, connects)

Routing ==
  \/ \E r \in NewRoutes : Add(r[1], r[2])
  \/ \E r \in NewRoutes, notes \in {Notes} \cup {{n} : n \in Notes} :
       Up(r[1], r[2].nxtHop, notes) \/ Down(r[1], r[2].nxtHop, notes)

Next == Registering \/ Sending \/ Routing
Spec == Init /\ [][Next]_vars

----------------------------------------------------------------------------
(* The type of the state.  A record names a socket of the CLA's transport  *)
(* that no other record names: DisableReceive closes what the record says. *)
TypeOK ==
  /\ routes \in RouteTable
  /\ reg \in [Eids -> Registration]
  /\ sockets \in Seq(Socket)
  /\ recv \in [Clas -> [Eids -> 0..Len(sockets)]]
  /\ send \in [Clas -> [Eids -> Addresses \cup {NoAddress}]]
  /\ \A c \in Clas, e \in Eids : recv[c][e] # 0 =>
       /\ sockets[recv[c][e]].transport = Transport[c]
       /\ \A d \in Clas, f \in Eids : recv[d][f] = recv[c][e] => d = c /\ f = e

(* An active endpoint is reachable: each CLA's transport has an open       *)
(* socket on the endpoint's port, whatever registrations, failed Binds and *)
(* closed sockets came before (BpAgent::Register, Bind, Unregister,        *)
(* EnableReceive, DisableReceive).                                         *)
ActiveIsReachable ==
  \A e \in LocalEids : reg[e] = "active" =>
    \A k \in 1..Len(ClaSeq) :
      Listening(sockets, Transport[ClaSeq[k]], ListenPort(routes, ClaSeq[k], e))

(* The two lookups of BpAgent6::Forward agree: when the next hop of a      *)
(* bundle has a CLA, the bundle's destination has an address, so that      *)
(* EnableSend never refuses what Forward has decided to send.              *)
ForwardHasAddress ==
  \A dst \in Eids : OutgoingCla(routes, dst) # NoCla => GetRoute(routes, dst) # NoAddress

(* bp-cla.h on the dstAddress of SendBundle: "the address of the           *)
(* destination endpoint id": what is sent is sent there.                   *)
SentToItsAddress ==
  sent.to # NoAddress => sent.to = GetRoute(routes, sent.dst)
=============================================================================
