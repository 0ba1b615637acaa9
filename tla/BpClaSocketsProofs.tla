------------------------- MODULE BpClaSocketsProofs -------------------------
(***************************************************************************)
(* What the route table answers to Forward, for every table, number of     *)
(* routes and sequence of AddRoute, UpRoute and DownRoute; and how sockets *)
(* follow registrations, for any CLAs, endpoints and routes.               *)
(***************************************************************************)
EXTENDS BpClaSockets, NumberLemmas, TLAPS

(* With a route up, the first of them is a route of the table that is up.  *)
LEMMA FirstUpIsUp ==
  ASSUME NEW table \in RouteTable, NEW dst \in Eids, UpRoutes(table, dst) # {}
  PROVE  \E i \in UpRoutes(table, dst) :
           FirstUp(table, dst) = table[dst][i] /\ table[dst][i] \in Route
<1>1. table[dst] \in Seq(Route) /\ Len(table[dst]) \in Nat
  BY DEF RouteTable
<1>2. UpRoutes(table, dst) \in SUBSET Nat
  BY <1>1 DEF UpRoutes
<1>3. \E i \in UpRoutes(table, dst) : \A j \in UpRoutes(table, dst) : i <= j
  BY <1>2, LeastElement
<1>4. PICK i \in UpRoutes(table, dst) : FirstUp(table, dst) = table[dst][i]
  BY <1>3 DEF FirstUp
<1>5. table[dst][i] \in Route
  BY <1>1 DEF UpRoutes
<1> QED BY <1>4, <1>5

(* GetRoute has an answer wherever OutgoingCla has one.                    *)
LEMMA ForwardedHasAddress ==
  ASSUME NEW table \in RouteTable, NEW dst \in Eids, OutgoingCla(table, dst) # NoCla
  PROVE  GetRoute(table, dst) # NoAddress
<1>1. UpRoutes(table, dst) # {}
  BY DEF OutgoingCla, NextHopEid
<1>2. FirstUp(table, dst).addr \in Addresses
  BY <1>1, FirstUpIsUp DEF Route
<1> QED BY <1>1, <1>2, RoutingAssumption DEF GetRoute

----------------------------------------------------------------------------
(* AddRoute, UpRoute and DownRoute keep the table a table of routes.       *)
LEMMA AddRouteType ==
  ASSUME NEW table \in RouteTable, NEW dst \in Eids, NEW r \in Route
  PROVE  AddRoute(table, dst, r) \in RouteTable
<1>1. table[dst] \in Seq(Route)
  BY DEF RouteTable
<1>2. Append(table[dst], r) \in Seq(Route)
  BY <1>1
<1> QED BY <1>2 DEF AddRoute, RouteTable

(* A route table stays one when a route goes up or down.                   *)
LEMMA SetRouteType ==
  ASSUME NEW table \in RouteTable, NEW dst \in Eids, NEW nxt \in Eids,
         NEW notes, NEW up \in BOOLEAN
  PROVE  SetRoute(table, dst, nxt, notes, up) \in RouteTable
<1> DEFINE set(i) == /\ i \in Matches(table, dst, nxt, notes)
                     /\ \A j \in Matches(table, dst, nxt, notes) : i <= j
           new == [i \in 1..Len(table[dst]) |->
                     IF set(i) THEN [table[dst][i] EXCEPT !.up = up] ELSE table[dst][i]]
<1>1. table[dst] \in Seq(Route) /\ Len(table[dst]) \in Nat
  BY DEF RouteTable
<1>2. \A i \in 1..Len(table[dst]) : table[dst][i] \in Route
  BY <1>1
<1>3. ASSUME NEW i \in 1..Len(table[dst])
      PROVE  (IF set(i) THEN [table[dst][i] EXCEPT !.up = up] ELSE table[dst][i]) \in Route
  <2> HIDE DEF set
  <2>1. table[dst][i] \in Route
    BY <1>2
  <2>2. [table[dst][i] EXCEPT !.up = up] \in Route
    BY <2>1 DEF Route
  <2> QED BY <2>1, <2>2
<1>4. new \in [1..Len(table[dst]) -> Route]
  BY <1>3
<1>5. new \in Seq(Route)
  <2> HIDE DEF new
  <2> QED BY <1>1, <1>4
<1>6. SetRoute(table, dst, nxt, notes, up) = [table EXCEPT ![dst] = new]
  BY Zenon DEF SetRoute, RouteTable
<1> QED
  <2> HIDE DEF new
  <2> QED BY <1>5, <1>6 DEF RouteTable

(* Every reachable route table is a table of routes.                       *)
LEMMA RoutesNext == routes \in RouteTable /\ [Next]_vars => routes' \in RouteTable
<1> SUFFICES ASSUME routes \in RouteTable, [Next]_vars
             PROVE  routes' \in RouteTable
  OBVIOUS
<1>1. CASE UNCHANGED routes
  BY <1>1
<1>2. CASE Registering
  BY <1>2 DEF Registering, Register, Unregister, Bind, Close
<1>3. CASE Sending
  BY <1>3 DEF Sending, Forward
<1>4. CASE Routing
  <2>1. \A r \in NewRoutes : r[1] \in Eids /\ r[2] \in Route /\ r[2].nxtHop \in Eids
    BY SocketAssumption DEF Route
  <2>2. ASSUME NEW r \in NewRoutes, Add(r[1], r[2])
        PROVE  routes' \in RouteTable
    BY <2>1, <2>2, AddRouteType DEF Add, ChangeRoutes
  <2>3. ASSUME NEW r \in NewRoutes, NEW notes,
               Up(r[1], r[2].nxtHop, notes) \/ Down(r[1], r[2].nxtHop, notes)
        PROVE  routes' \in RouteTable
    BY <2>1, <2>3, SetRouteType DEF Up, Down, UpRoute, DownRoute, ChangeRoutes
  <2> QED BY <1>4, <2>2, <2>3 DEF Routing
<1> QED BY <1>1, <1>2, <1>3, <1>4 DEF Next, vars

(* Route tables are tables throughout.                                     *)
LEMMA RoutesAreRoutes == Spec => [](routes \in RouteTable)
<1>1. Init => routes \in RouteTable
  BY SocketAssumption DEF Init
<1>2. routes \in RouteTable /\ [Next]_vars => (routes \in RouteTable)'
  BY RoutesNext
<1> QED BY <1>1, <1>2, PTL DEF Spec

(* The CLA that Forward finds never goes with the address that EnableSend  *)
(* refuses.                                                                *)
THEOREM HasAddress == Spec => []ForwardHasAddress
<1>1. routes \in RouteTable => ForwardHasAddress
  BY ForwardedHasAddress DEF ForwardHasAddress
<1> QED BY <1>1, RoutesAreRoutes, PTL

----------------------------------------------------------------------------
(* The loops of Register and Bind, and of Unregister, end in a set of the  *)
(* last CLA when each turn leads from a set of one CLA to that of the next.*)
LEMMA EnableAllLeads ==
  ASSUME NEW eid, NEW S, [sockets |-> sockets, recv |-> recv] \in S[0],
         \A k \in 1..Len(ClaSeq) : \A x \in S[k - 1] : EnableReceive(x, ClaSeq[k], eid) \in S[k]
  PROVE  EnableAll(eid) \in S[Len(ClaSeq)]
<1> DEFINE n == Len(ClaSeq)
           start == [sockets |-> sockets, recv |-> recv]
           all == UNION {S[k] : k \in 0..n}
           g == [kx \in (1..n) \X all |-> EnableReceive(kx[2], ClaSeq[kx[1]], eid)]
           Is(f) == f = [k \in 0..n |-> IF k = 0 THEN start
                                        ELSE EnableReceive(f[k - 1], ClaSeq[k], eid)]
           after == CHOOSE f : Is(f)
<1>1. n \in Nat
  BY SocketAssumption
<1>2. \A k \in 1..n : \A x \in S[k - 1] :
        x \in all /\ g[<<k, x>>] = EnableReceive(x, ClaSeq[k], eid)
  <2> SUFFICES ASSUME NEW k \in 1..n, NEW x \in S[k - 1]
               PROVE  x \in all /\ g[<<k, x>>] = EnableReceive(x, ClaSeq[k], eid)
    OBVIOUS
  <2>1. k - 1 \in 0..n
    BY <1>1
  <2>2. x \in all
    BY <2>1
  <2> HIDE DEF all
  <2>3. <<k, x>> \in (1..n) \X all
    BY <2>2
  <2> HIDE DEF n
  <2> QED BY <2>2, <2>3
<1>3. start \in S[0] /\ \A k \in 1..n : \A x \in S[k - 1] : g[<<k, x>>] \in S[k]
  <2> HIDE DEF g
  <2> QED BY <1>2
<1>4. PICK f : /\ f = [k \in 0..n |-> IF k = 0 THEN start ELSE g[<<k, f[k - 1]>>]]
               /\ \A k \in 0..n : f[k] \in S[k]
  <2> HIDE DEF n, g, start
  <2>1. \E f : IsTrace(f, n, start, g) /\ Within(f, n, S)
    BY <1>1, <1>3, Trace
  <2> QED BY <2>1 DEF IsTrace, Within
<1>5. Is(f)
  <2> HIDE DEF g, start
  <2>1. \A k \in 1..n : g[<<k, f[k - 1]>>] = EnableReceive(f[k - 1], ClaSeq[k], eid)
    <3> SUFFICES ASSUME NEW k \in 1..n
                 PROVE  g[<<k, f[k - 1]>>] = EnableReceive(f[k - 1], ClaSeq[k], eid)
      OBVIOUS
    <3>1. f[k - 1] \in S[k - 1]
      BY <1>1, <1>4
    <3> QED BY <1>2, <3>1
  <2>2. \A k \in 0..n : k # 0 => k \in 1..n
    BY <1>1
  <2> HIDE DEF n
  <2> QED BY <1>4, <2>1, <2>2, Zenon
<1>6. Is(after)
  <2> HIDE DEF Is
  <2> QED BY <1>5
<1>7. \A k \in 0..n : after[k] = IF k = 0 THEN start
                                 ELSE EnableReceive(after[k - 1], ClaSeq[k], eid)
  <2> HIDE DEF after, n, start
  <2> QED BY <1>6, Zenon
<1> DEFINE T == {k \in 0..n : after[k] \in S[k]}
<1>8. 0 \in T
  <2> HIDE DEF after, start
  <2> QED BY <1>1, <1>3, <1>7
<1>9. ASSUME NEW k \in 1..n, k - 1 \in T
      PROVE  k \in T
  <2> HIDE DEF after, start
  <2> QED BY <1>1, <1>7, <1>9
<1>10. n \in T
  <2> HIDE DEF T, n
  <2> QED BY <1>1, <1>8, <1>9, UpTo
<1>11. EnableAll(eid) = after[n]
  BY Zenon DEF EnableAll
<1> QED
  <2> HIDE DEF after
  <2> QED BY <1>10, <1>11
(* The loop of Unregister and Close over all CLAs leads where its rounds   *)
(* lead.                                                                   *)
LEMMA DisableAllLeads ==
  ASSUME NEW eid, NEW S, [sockets |-> sockets, recv |-> recv] \in S[0],
         \A k \in 1..Len(ClaSeq) : \A x \in S[k - 1] : DisableReceive(x, ClaSeq[k], eid) \in S[k]
  PROVE  DisableAll(eid) \in S[Len(ClaSeq)]
<1> DEFINE n == Len(ClaSeq)
           start == [sockets |-> sockets, recv |-> recv]
           all == UNION {S[k] : k \in 0..n}
           g == [kx \in (1..n) \X all |-> DisableReceive(kx[2], ClaSeq[kx[1]], eid)]
           Is(f) == f = [k \in 0..n |-> IF k = 0 THEN start
                                        ELSE DisableReceive(f[k - 1], ClaSeq[k], eid)]
           after == CHOOSE f : Is(f)
<1>1. n \in Nat
  BY SocketAssumption
<1>2. \A k \in 1..n : \A x \in S[k - 1] :
        x \in all /\ g[<<k, x>>] = DisableReceive(x, ClaSeq[k], eid)
  <2> SUFFICES ASSUME NEW k \in 1..n, NEW x \in S[k - 1]
               PROVE  x \in all /\ g[<<k, x>>] = DisableReceive(x, ClaSeq[k], eid)
    OBVIOUS
  <2>1. k - 1 \in 0..n
    BY <1>1
  <2>2. x \in all
    BY <2>1
  <2> HIDE DEF all
  <2>3. <<k, x>> \in (1..n) \X all
    BY <2>2
  <2> HIDE DEF n
  <2> QED BY <2>2, <2>3
<1>3. start \in S[0] /\ \A k \in 1..n : \A x \in S[k - 1] : g[<<k, x>>] \in S[k]
  <2> HIDE DEF g
  <2> QED BY <1>2
<1>4. PICK f : /\ f = [k \in 0..n |-> IF k = 0 THEN start ELSE g[<<k, f[k - 1]>>]]
               /\ \A k \in 0..n : f[k] \in S[k]
  <2> HIDE DEF n, g, start
  <2>1. \E f : IsTrace(f, n, start, g) /\ Within(f, n, S)
    BY <1>1, <1>3, Trace
  <2> QED BY <2>1 DEF IsTrace, Within
<1>5. Is(f)
  <2> HIDE DEF g, start
  <2>1. \A k \in 1..n : g[<<k, f[k - 1]>>] = DisableReceive(f[k - 1], ClaSeq[k], eid)
    <3> SUFFICES ASSUME NEW k \in 1..n
                 PROVE  g[<<k, f[k - 1]>>] = DisableReceive(f[k - 1], ClaSeq[k], eid)
      OBVIOUS
    <3>1. f[k - 1] \in S[k - 1]
      BY <1>1, <1>4
    <3> QED BY <1>2, <3>1
  <2>2. \A k \in 0..n : k # 0 => k \in 1..n
    BY <1>1
  <2> HIDE DEF n
  <2> QED BY <1>4, <2>1, <2>2, Zenon
<1>6. Is(after)
  <2> HIDE DEF Is
  <2> QED BY <1>5
<1>7. \A k \in 0..n : after[k] = IF k = 0 THEN start
                                 ELSE DisableReceive(after[k - 1], ClaSeq[k], eid)
  <2> HIDE DEF after, n, start
  <2> QED BY <1>6, Zenon
<1> DEFINE T == {k \in 0..n : after[k] \in S[k]}
<1>8. 0 \in T
  <2> HIDE DEF after, start
  <2> QED BY <1>1, <1>3, <1>7
<1>9. ASSUME NEW k \in 1..n, k - 1 \in T
      PROVE  k \in T
  <2> HIDE DEF after, start
  <2> QED BY <1>1, <1>7, <1>9
<1>10. n \in T
  <2> HIDE DEF T, n
  <2> QED BY <1>1, <1>8, <1>9, UpTo
<1>11. DisableAll(eid) = after[n]
  BY Zenon DEF DisableAll
<1> QED
  <2> HIDE DEF after
  <2> QED BY <1>10, <1>11
----------------------------------------------------------------------------
(* What the CLAs hand on: sockets and records, where each record names a   *)
(* socket of the CLA's transport that no other record names.               *)
Recorded(net) ==
  /\ net \in [sockets : Seq(Socket), recv : [Clas -> [Eids -> Nat]]]
  /\ \A c \in Clas, e \in Eids : net.recv[c][e] \in 0..Len(net.sockets)
  /\ \A c \in Clas, e \in Eids : net.recv[c][e] # 0 =>
       /\ net.sockets[net.recv[c][e]].transport = Transport[c]
       /\ \A d \in Clas, f \in Eids : net.recv[d][f] = net.recv[c][e] => d = c /\ f = e

(* Where a record is made, it is for a local endpoint and its own port.    *)
AtHome(net) ==
  \A c \in Clas, e \in Eids : net.recv[c][e] # 0 =>
    e \in LocalEids /\ net.sockets[net.recv[c][e]].port = ListenPort(InitRoutes, c, e)

(* A port of a transport is not the one of an endpoint at home.            *)
Other(t, p, c, e) == t # Transport[c] \/ p # ListenPort(InitRoutes, c, e)

(* A transport's port that was listened on before still is.                *)
Keeps(net, next) ==
  \A t, p : Listening(net.sockets, t, p) => Listening(next.sockets, t, p)

(* A port to listen on is never 0.                                         *)
LEMMA ListenPortType ==
  ASSUME NEW table \in RouteTable, NEW c \in Clas, NEW eid \in Eids
  PROVE  ListenPort(table, c, eid) \in Nat \ {0}
<1>1. GetRoute(table, eid) \in Addresses \cup {NoAddress}
  BY FirstUpIsUp DEF GetRoute, Route
<1> QED BY <1>1, SocketAssumption DEF ListenPort

(* EnableReceive keeps the records apart and at home, listens in the end,  *)
(* and leaves every socket open that was.                                  *)
LEMMA EnableReceiveEffect ==
  ASSUME NEW net, Recorded(net), NEW c \in Clas, NEW eid \in Eids, routes \in RouteTable
  PROVE  /\ Recorded(EnableReceive(net, c, eid))
         /\ Listening(EnableReceive(net, c, eid).sockets, Transport[c],
                      ListenPort(routes, c, eid))
         /\ Keeps(net, EnableReceive(net, c, eid))
         /\ (AtHome(net) /\ eid \in LocalEids
               /\ ListenPort(routes, c, eid) = ListenPort(InitRoutes, c, eid))
            => AtHome(EnableReceive(net, c, eid))
<1> DEFINE port == ListenPort(routes, c, eid)
           sock == [transport |-> Transport[c], port |-> port, open |-> TRUE]
           n == Len(net.sockets)
           rcv == [net.recv EXCEPT ![c][eid] = IF @ = 0 THEN n + 1 ELSE @]
           new == [sockets |-> Append(net.sockets, sock), recv |-> rcv]
<1>1. CASE Listening(net.sockets, Transport[c], port)
  BY <1>1 DEF EnableReceive, Keeps
<1>2. CASE ~Listening(net.sockets, Transport[c], port)
  <2>1. EnableReceive(net, c, eid) = new
    BY <1>2 DEF EnableReceive
  <2>2. port \in Nat \ {0} /\ Transport[c] \in {"Tcp", "Udp"}
    BY ListenPortType, SocketAssumption
  <2>3. sock \in Socket
    <3> HIDE DEF port
    <3> QED BY <2>2 DEF Socket
  <2>4. net.sockets \in Seq(Socket) /\ n \in Nat /\ net.recv \in [Clas -> [Eids -> Nat]]
    BY DEF Recorded
  <2> HIDE DEF sock
  <2>5. /\ Append(net.sockets, sock) \in Seq(Socket)
        /\ Len(Append(net.sockets, sock)) = n + 1
        /\ Append(net.sockets, sock)[n + 1] = sock
        /\ \A i \in 1..n : Append(net.sockets, sock)[i] = net.sockets[i]
    BY <2>3, <2>4
  <2>6. /\ rcv \in [Clas -> [Eids -> Nat]]
        /\ rcv[c][eid] = IF net.recv[c][eid] = 0 THEN n + 1 ELSE net.recv[c][eid]
        /\ \A d \in Clas, f \in Eids : d # c \/ f # eid => rcv[d][f] = net.recv[d][f]
    BY <2>4
  <2>7. \A d \in Clas, f \in Eids : net.recv[d][f] \in 0..n
    BY DEF Recorded
  <2>8. new.sockets = Append(net.sockets, sock) /\ new.recv = rcv
    OBVIOUS
  <2> DEFINE socks == Append(net.sockets, sock)
  <2>9. sock.transport = Transport[c] /\ sock.port = port /\ sock.open = TRUE
    BY DEF sock
  <2>10. new \in [sockets : Seq(Socket), recv : [Clas -> [Eids -> Nat]]]
    <3> HIDE DEF rcv
    <3> QED BY <2>5, <2>6
  <2> HIDE DEF rcv, new, socks, n
  <2>11. Recorded(new)
    <3>1. \A d \in Clas, f \in Eids : rcv[d][f] \in 0..(n + 1)
      BY <2>4, <2>6, <2>7
    <3>2. ASSUME NEW d \in Clas, NEW f \in Eids, rcv[d][f] # 0
          PROVE  /\ socks[rcv[d][f]].transport = Transport[d]
                 /\ \A d2 \in Clas, f2 \in Eids :
                      rcv[d2][f2] = rcv[d][f] => d2 = d /\ f2 = f
      <4>1. CASE d = c /\ f = eid /\ net.recv[c][eid] = 0
        <5>1. rcv[d][f] = n + 1
          BY <2>6, <4>1
        <5>2. \A d2 \in Clas, f2 \in Eids : rcv[d2][f2] = n + 1 => d2 = c /\ f2 = eid
          <6> SUFFICES ASSUME NEW d2 \in Clas, NEW f2 \in Eids, d2 # c \/ f2 # eid
                       PROVE  rcv[d2][f2] # n + 1
            OBVIOUS
          <6>1. rcv[d2][f2] = net.recv[d2][f2] /\ net.recv[d2][f2] \in 0..n
            BY <2>6, <2>7
          <6> QED BY <2>4, <6>1
        <5>3. socks[n + 1] = sock
          BY <2>5 DEF socks
        <5>4. socks[rcv[d][f]].transport = Transport[d]
          BY <2>9, <4>1, <5>1, <5>3
        <5> QED BY <4>1, <5>1, <5>2, <5>4
      <4>2. CASE ~(d = c /\ f = eid /\ net.recv[c][eid] = 0)
        <5>1. rcv[d][f] = net.recv[d][f]
          BY <2>6, <4>2
        <5>2. net.recv[d][f] \in 1..n
          BY <2>4, <2>7, <3>2, <5>1
        <5>3. /\ net.sockets[net.recv[d][f]].transport = Transport[d]
              /\ \A d2 \in Clas, f2 \in Eids :
                   net.recv[d2][f2] = net.recv[d][f] => d2 = d /\ f2 = f
          BY <3>2, <5>1 DEF Recorded
        <5>4. \A d2 \in Clas, f2 \in Eids :
                rcv[d2][f2] = net.recv[d2][f2] \/ rcv[d2][f2] = n + 1
          BY <2>6
        <5>5. \A d2 \in Clas, f2 \in Eids :
                rcv[d2][f2] = rcv[d][f] => net.recv[d2][f2] = net.recv[d][f]
          <6> SUFFICES ASSUME NEW d2 \in Clas, NEW f2 \in Eids, rcv[d2][f2] = rcv[d][f]
                       PROVE  net.recv[d2][f2] = net.recv[d][f]
            OBVIOUS
          <6>1. net.recv[d][f] # n + 1
            BY <2>4, <5>2
          <6> QED BY <5>1, <5>4, <6>1
        <5>6. socks[rcv[d][f]] = net.sockets[net.recv[d][f]]
          <6>1. socks[net.recv[d][f]] = net.sockets[net.recv[d][f]]
            BY <2>5, <5>2 DEF socks
          <6> QED BY <5>1, <6>1
        <5> QED BY <5>3, <5>5, <5>6
      <4> QED BY <4>1, <4>2
    <3>3. new.sockets = socks /\ Len(socks) = n + 1
      BY <2>5, <2>8 DEF socks
    <3> QED BY <2>8, <2>10, <3>1, <3>2, <3>3 DEF Recorded
  <2>12. Listening(new.sockets, Transport[c], port)
    BY <2>4, <2>5, <2>8, <2>9 DEF Listening
  <2>13. ASSUME NEW t, NEW p, Listening(net.sockets, t, p)
         PROVE  Listening(new.sockets, t, p)
    <3>1. PICK k \in 1..n :
            net.sockets[k].open /\ net.sockets[k].transport = t /\ net.sockets[k].port = p
      BY <2>13 DEF Listening, n
    <3>2. k \in 1..Len(new.sockets) /\ new.sockets[k] = net.sockets[k]
      BY <2>4, <2>5, <2>8
    <3> QED BY <3>1, <3>2 DEF Listening
  <2>14. ASSUME AtHome(net), eid \in LocalEids, port = ListenPort(InitRoutes, c, eid),
                NEW d \in Clas, NEW f \in Eids, rcv[d][f] # 0
         PROVE  f \in LocalEids /\ new.sockets[rcv[d][f]].port = ListenPort(InitRoutes, d, f)
    <3>1. CASE d = c /\ f = eid /\ net.recv[c][eid] = 0
      BY <2>5, <2>6, <2>8, <2>9, <2>14, <3>1
    <3>2. CASE ~(d = c /\ f = eid /\ net.recv[c][eid] = 0)
      <4>1. rcv[d][f] = net.recv[d][f]
        BY <2>6, <3>2
      <4>2. net.recv[d][f] \in 1..n
        BY <2>4, <2>7, <2>14, <4>1
      <4>3. new.sockets[net.recv[d][f]] = net.sockets[net.recv[d][f]]
        <5>1. \A i \in 1..n : new.sockets[i] = net.sockets[i]
          BY <2>5, <2>8
        <5> QED BY <4>2, <5>1
      <4> QED BY <2>14, <4>1, <4>3 DEF AtHome
    <3> QED BY <3>1, <3>2
  <2>15. AtHome(net) /\ eid \in LocalEids /\ port = ListenPort(InitRoutes, c, eid)
         => AtHome(new)
    BY <2>8, <2>14 DEF AtHome
  <2>16. Keeps(net, new)
    BY <2>13 DEF Keeps
  <2> QED BY <2>1, <2>11, <2>12, <2>15, <2>16
<1> QED BY <1>1, <1>2

(* DisableReceive keeps the records, and with them at home closes nothing  *)
(* but the endpoint's own port of the CLA's transport.                     *)
LEMMA DisableReceiveEffect ==
  ASSUME NEW net, Recorded(net), NEW c \in Clas, NEW eid \in Eids
  PROVE  /\ Recorded(DisableReceive(net, c, eid))
         /\ AtHome(net) => AtHome(DisableReceive(net, c, eid))
         /\ \A t, p :
              (AtHome(net) /\ Listening(net.sockets, t, p) /\ Other(t, p, c, eid))
              => Listening(DisableReceive(net, c, eid).sockets, t, p)
<1> DEFINE r == net.recv[c][eid]
           new == DisableReceive(net, c, eid)
           n == Len(net.sockets)
<1>1. CASE r = 0
  BY <1>1 DEF DisableReceive
<1>2. CASE r # 0
  <2>1. net.sockets \in Seq(Socket) /\ n \in Nat /\ net.recv \in [Clas -> [Eids -> Nat]]
    BY DEF Recorded
  <2>2. r \in 1..n
    BY <1>2, <2>1 DEF Recorded
  <2>3. net \in [sockets : Seq(Socket), recv : [Clas -> [Eids -> Nat]]]
    BY DEF Recorded
  <2>4. /\ new.sockets = [net.sockets EXCEPT ![r].open = FALSE] /\ new.recv = net.recv
        /\ new = [sockets |-> new.sockets, recv |-> new.recv]
    BY <1>2, <2>3 DEF DisableReceive
  <2> HIDE DEF r, n, new
  <2>5. /\ \A k \in 1..n : k # r => new.sockets[k] = net.sockets[k]
        /\ new.sockets[r] = [net.sockets[r] EXCEPT !.open = FALSE]
        /\ DOMAIN new.sockets = 1..n
    BY <2>1, <2>2, <2>4 DEF n
  <2>6. /\ new.sockets[r] \in Socket
        /\ new.sockets[r].transport = net.sockets[r].transport
        /\ new.sockets[r].port = net.sockets[r].port
    <3>1. net.sockets[r] \in Socket
      BY <2>1, <2>2 DEF n
    <3> QED BY <2>5, <3>1 DEF Socket
  <2>7. new.sockets \in Seq(Socket) /\ Len(new.sockets) = n
    <3>1. \A k \in 1..n : new.sockets[k] \in Socket
      BY <2>1, <2>5, <2>6 DEF n
    <3>2. new.sockets = [k \in 1..n |-> new.sockets[k]]
      BY <2>4, <2>5
    <3> QED BY <2>1, <3>1, <3>2
  <2>8. \A k \in 1..n : /\ new.sockets[k].transport = net.sockets[k].transport
                        /\ new.sockets[k].port = net.sockets[k].port
    BY <2>5, <2>6
  <2>9. \A d \in Clas, f \in Eids : net.recv[d][f] # 0 => net.recv[d][f] \in 1..n
    BY <2>1 DEF Recorded, n
  <2>10. Recorded(new)
    <3>1. new \in [sockets : Seq(Socket), recv : [Clas -> [Eids -> Nat]]]
      BY <2>1, <2>4, <2>7
    <3> QED BY <2>4, <2>7, <2>8, <2>9, <3>1 DEF Recorded, n
  <2>11. AtHome(net) => AtHome(new)
    BY <2>4, <2>8, <2>9 DEF AtHome
  <2>12. ASSUME NEW t, NEW p, AtHome(net), Listening(net.sockets, t, p),
                Other(t, p, c, eid)
         PROVE  Listening(new.sockets, t, p)
    <3>1. PICK k \in 1..n :
            net.sockets[k].open /\ net.sockets[k].transport = t /\ net.sockets[k].port = p
      BY <2>12 DEF Listening, n
    <3>2. /\ net.sockets[r].transport = Transport[c]
          /\ net.sockets[r].port = ListenPort(InitRoutes, c, eid)
      BY <1>2, <2>12 DEF Recorded, AtHome, r
    <3>3. k # r
      BY <2>12, <3>1, <3>2 DEF Other
    <3> QED BY <2>5, <2>7, <3>1, <3>3 DEF Listening
  <2> QED BY <2>10, <2>11, <2>12 DEF new
<1> QED BY <1>1, <1>2
----------------------------------------------------------------------------
Now == [sockets |-> sockets, recv |-> recv]
Same(eid) == \A c \in Clas : ListenPort(routes, c, eid) = ListenPort(InitRoutes, c, eid)

(* After Register or Bind every CLA listens for the endpoint.              *)
LEMMA EnableAllEffect ==
  ASSUME NEW eid \in Eids, routes \in RouteTable, Recorded(Now)
  PROVE  /\ Recorded(EnableAll(eid))
         /\ Keeps(Now, EnableAll(eid))
         /\ \A k \in 1..Len(ClaSeq) :
              Listening(EnableAll(eid).sockets, Transport[ClaSeq[k]],
                        ListenPort(routes, ClaSeq[k], eid))
         /\ AtHome(Now) /\ eid \in LocalEids /\ Same(eid) => AtHome(EnableAll(eid))
<1> DEFINE Home == AtHome(Now) /\ eid \in LocalEids /\ Same(eid)
           Open(x, k) == Listening(x.sockets, Transport[ClaSeq[k]],
                                   ListenPort(routes, ClaSeq[k], eid))
           Good(x) == Recorded(x) /\ Keeps(Now, x) /\ (Home => AtHome(x))
           Nets == [sockets : Seq(Socket), recv : [Clas -> [Eids -> Nat]]]
           S == [k \in 0..Len(ClaSeq) |->
                   {x \in Nets : Good(x) /\ \A j \in 1..k : Open(x, j)}]
<1>1. Len(ClaSeq) \in Nat /\ \A k \in 1..Len(ClaSeq) : ClaSeq[k] \in Clas
  BY SocketAssumption
<1>2. \A x : Recorded(x) => x \in Nets
  BY DEF Recorded
<1>3. Now \in S[0]
  <2>1. Good(Now)
    BY DEF Keeps
  <2> HIDE DEF Good, Open, Nets
  <2>2. Now \in Nets
    BY <1>2
  <2>3. \A j \in 1..0 : Open(Now, j)
    OBVIOUS
  <2> QED BY <1>1, <2>1, <2>2, <2>3
<1>4. ASSUME NEW k \in 1..Len(ClaSeq), NEW x \in S[k - 1]
      PROVE  EnableReceive(x, ClaSeq[k], eid) \in S[k]
  <2> DEFINE y == EnableReceive(x, ClaSeq[k], eid)
  <2>1. k - 1 \in 0..Len(ClaSeq) /\ k \in 0..Len(ClaSeq) /\ ClaSeq[k] \in Clas
    BY <1>1
  <2>2. Good(x) /\ \A j \in 1..(k - 1) : Open(x, j)
    <3> HIDE DEF Good, Open, Nets
    <3> QED BY <2>1
  <2>3. /\ Recorded(y) /\ Keeps(x, y)
        /\ Listening(y.sockets, Transport[ClaSeq[k]], ListenPort(routes, ClaSeq[k], eid))
        /\ Home => AtHome(y)
    BY <2>1, <2>2, EnableReceiveEffect DEF Same
  <2> HIDE DEF y
  <2>4. Good(y)
    <3>1. Keeps(Now, y)
      BY <2>2, <2>3 DEF Keeps
    <3> QED BY <2>3, <3>1
  <2>5. \A j \in 1..k : Open(y, j)
    <3> SUFFICES ASSUME NEW j \in 1..k PROVE Open(y, j)
      OBVIOUS
    <3>1. CASE j = k
      BY <2>3, <3>1
    <3>2. CASE j # k
      <4>1. j \in 1..(k - 1)
        BY <3>2
      <4> QED BY <2>2, <2>3, <4>1 DEF Keeps
    <3> QED BY <3>1, <3>2
  <2> HIDE DEF Good, Open, Nets
  <2>6. y \in Nets
    BY <1>2, <2>3
  <2> QED BY <2>1, <2>4, <2>5, <2>6 DEF y
<1>5. EnableAll(eid) \in S[Len(ClaSeq)]
  <2> HIDE DEF S
  <2> QED BY <1>3, <1>4, EnableAllLeads DEF Now
<1>6. Good(EnableAll(eid)) /\ \A k \in 1..Len(ClaSeq) : Open(EnableAll(eid), k)
  <2> HIDE DEF Good, Open, Nets
  <2> QED BY <1>1, <1>5
<1> QED BY <1>6

(* Unregister closes nothing but what was the endpoint's own.              *)
LEMMA DisableAllEffect ==
  ASSUME NEW eid \in Eids, Recorded(Now)
  PROVE  /\ Recorded(DisableAll(eid))
         /\ AtHome(Now) => AtHome(DisableAll(eid))
         /\ \A t, p :
              (AtHome(Now) /\ Listening(sockets, t, p) /\ (\A c \in Clas : Other(t, p, c, eid)))
              => Listening(DisableAll(eid).sockets, t, p)
<1> DEFINE Others(x) ==
             \A t, p :
               (AtHome(Now) /\ Listening(sockets, t, p) /\ (\A c \in Clas : Other(t, p, c, eid)))
               => Listening(x.sockets, t, p)
           Good(x) == Recorded(x) /\ (AtHome(Now) => AtHome(x)) /\ Others(x)
           Nets == [sockets : Seq(Socket), recv : [Clas -> [Eids -> Nat]]]
           S == [k \in 0..Len(ClaSeq) |-> {x \in Nets : Good(x)}]
<1>1. Len(ClaSeq) \in Nat /\ \A k \in 1..Len(ClaSeq) : ClaSeq[k] \in Clas
  BY SocketAssumption
<1>2. \A x : Good(x) => x \in Nets
  BY DEF Recorded
<1>3. Good(Now)
  BY DEF Now
<1>4. ASSUME NEW k \in 1..Len(ClaSeq), NEW x, Good(x)
      PROVE  Good(DisableReceive(x, ClaSeq[k], eid))
  <2> DEFINE y == DisableReceive(x, ClaSeq[k], eid)
  <2>1. ClaSeq[k] \in Clas
    BY <1>1
  <2>2. Recorded(x)
    BY <1>4
  <2>3. /\ Recorded(y) /\ (AtHome(x) => AtHome(y))
        /\ \A t, p :
             (AtHome(x) /\ Listening(x.sockets, t, p) /\ Other(t, p, ClaSeq[k], eid))
             => Listening(y.sockets, t, p)
    BY <2>1, <2>2, DisableReceiveEffect
  <2> HIDE DEF y
  <2> QED BY <1>4, <2>1, <2>3 DEF y
<1>5. DisableAll(eid) \in S[Len(ClaSeq)]
  <2> HIDE DEF Good, Nets
  <2>1. Now \in S[0]
    BY <1>1, <1>2, <1>3
  <2>2. ASSUME NEW k \in 1..Len(ClaSeq), NEW x \in S[k - 1]
        PROVE  DisableReceive(x, ClaSeq[k], eid) \in S[k]
    <3>1. k - 1 \in 0..Len(ClaSeq) /\ k \in 0..Len(ClaSeq)
      BY <1>1
    <3>2. Good(x)
      BY <3>1
    <3> QED BY <1>2, <1>4, <3>1, <3>2
  <2> HIDE DEF S
  <2> QED BY <2>1, <2>2, DisableAllLeads DEF Now
<1>6. Good(DisableAll(eid))
  <2> HIDE DEF Good, Nets
  <2> QED BY <1>1, <1>5
<1> QED BY <1>6
----------------------------------------------------------------------------
(* What Forward looks up is a CLA and an address, or neither.              *)
LEMMA LookupType ==
  ASSUME NEW table \in RouteTable, NEW dst \in Eids
  PROVE  /\ OutgoingCla(table, dst) \in Clas \cup {NoCla}
         /\ GetRoute(table, dst) \in Addresses \cup {NoAddress}
<1>1. ASSUME NEW e \in Eids, UpRoutes(table, e) # {}
      PROVE  FirstUp(table, e) \in Route
  BY <1>1, FirstUpIsUp
<1>2. NextHopEid(table, dst) \in Eids
  BY <1>1, RoutingAssumption DEF NextHopEid, Route
<1>3. \A e \in Eids : NextHopCla(table, e) \in Clas \cup {NoCla}
  BY <1>1 DEF NextHopCla, Route
<1>4. GetRoute(table, dst) \in Addresses \cup {NoAddress}
  BY <1>1 DEF GetRoute, Route
<1> QED BY <1>2, <1>3, <1>4 DEF OutgoingCla

SocketInv ==
  /\ routes \in RouteTable
  /\ reg \in [Eids -> Registration]
  /\ send \in [Clas -> [Eids -> Addresses \cup {NoAddress}]]
  /\ Recorded(Now)

(* No socket is recorded at first.                                         *)
LEMMA SocketInvInit == Init => SocketInv
<1> SUFFICES ASSUME Init PROVE SocketInv
  OBVIOUS
<1>1. routes \in RouteTable
  BY SocketAssumption DEF Init
<1>2. reg \in [Eids -> Registration]
  BY DEF Init, Registration
<1>3. send \in [Clas -> [Eids -> Addresses \cup {NoAddress}]]
  BY DEF Init
<1>4. /\ Now.sockets = <<>> /\ Now.recv = [c \in Clas |-> [e \in Eids |-> 0]]
      /\ Now \in [sockets : Seq(Socket), recv : [Clas -> [Eids -> Nat]]]
  BY DEF Init, Now
<1>5. Recorded(Now)
  <2> HIDE DEF Now
  <2>1. \A c \in Clas, e \in Eids : Now.recv[c][e] = 0
    BY <1>4
  <2>2. Len(Now.sockets) = 0
    BY <1>4
  <2> QED BY <1>4, <2>1, <2>2 DEF Recorded
<1> QED BY <1>1, <1>2, <1>3, <1>5 DEF SocketInv

(* What an action leaves of the sockets is what the CLAs handed on.        *)
LEMMA SetSocketsNow ==
  ASSUME NEW net, Recorded(net), SetSockets(net)
  PROVE  Now' = net
<1>1. net = [sockets |-> net.sockets, recv |-> net.recv]
  BY DEF Recorded
<1> QED BY <1>1 DEF SetSockets, Now

(* Each action preserves what is known of records and sockets.             *)
LEMMA SocketInvNext == SocketInv /\ [Next]_vars => SocketInv'
<1> SUFFICES ASSUME SocketInv, [Next]_vars
             PROVE  SocketInv'
  OBVIOUS
<1> USE DEF SocketInv
<1>0. LocalEids \subseteq Eids
  BY SocketAssumption
<1>1. routes' \in RouteTable
  BY RoutesNext
<1>2. CASE UNCHANGED vars
  BY <1>2 DEF vars, Now
<1>3. ASSUME NEW e \in LocalEids, NEW s \in {"passive", "active"}, Register(e, s)
      PROVE  SocketInv'
  <2>1. e \in Eids
    BY <1>0
  <2>2. reg' \in [Eids -> Registration] /\ UNCHANGED send
    BY <1>3, <2>1 DEF Register, Registration
  <2>3. CASE s = "active"
    <3>1. Recorded(EnableAll(e)) /\ SetSockets(EnableAll(e))
      BY <1>3, <2>1, <2>3, EnableAllEffect DEF Register
    <3> QED BY <1>1, <2>2, <3>1, SetSocketsNow
  <2>4. CASE s # "active"
    BY <1>1, <1>3, <2>2, <2>4 DEF Register, Now
  <2> QED BY <2>3, <2>4
<1>4. ASSUME NEW e \in LocalEids, Unregister(e)
      PROVE  SocketInv'
  <2>1. e \in Eids
    BY <1>0
  <2>2. reg' \in [Eids -> Registration] /\ UNCHANGED send
    BY <1>4, <2>1 DEF Unregister, Registration
  <2>3. Recorded(DisableAll(e)) /\ SetSockets(DisableAll(e))
    BY <1>4, <2>1, DisableAllEffect DEF Unregister
  <2> QED BY <1>1, <2>2, <2>3, SetSocketsNow
<1>5. ASSUME NEW e \in LocalEids, Bind(e)
      PROVE  SocketInv'
  <2>1. e \in Eids
    BY <1>0
  <2>2. reg' \in [Eids -> Registration] /\ UNCHANGED send
    BY <1>5, <2>1 DEF Bind, Registration
  <2>3. Recorded(EnableAll(e)) /\ SetSockets(EnableAll(e))
    BY <1>5, <2>1, EnableAllEffect DEF Bind
  <2> QED BY <1>1, <2>2, <2>3, SetSocketsNow
<1>6. ASSUME NEW e \in LocalEids, Close(e)
      PROVE  SocketInv'
  BY <1>0, <1>1, <1>6 DEF Close, Registration, Now
<1>7. ASSUME NEW src \in Sources, NEW dst \in Destinations, NEW connects \in BOOLEAN,
             Forward(src, dst, connects)
      PROVE  SocketInv'
  <2> DEFINE c == OutgoingCla(routes, dst)
             to == Connected(c, src, dst, connects)
  <2>1. src \in Eids /\ dst \in Eids
    BY SocketAssumption
  <2>2. c \in Clas
    BY <1>7, <2>1, LookupType DEF Forward
  <2>3. to \in Addresses \cup {NoAddress}
    <3> HIDE DEF c
    <3>1. GetRoute(routes, dst) \in Addresses \cup {NoAddress}
      BY <2>1, LookupType
    <3> QED BY <2>1, <2>2, <3>1 DEF Connected
  <2>4. send' = [send EXCEPT ![c][src] = to] /\ UNCHANGED <<routes, reg, sockets, recv>>
    BY <1>7 DEF Forward
  <2> HIDE DEF c, to
  <2>5. send' \in [Clas -> [Eids -> Addresses \cup {NoAddress}]]
    BY <2>1, <2>2, <2>3, <2>4
  <2> QED BY <1>1, <2>4, <2>5 DEF Now
<1>8. CASE Routing
  <2>1. UNCHANGED <<reg, sockets, recv, send>>
    BY <1>8 DEF Routing, Add, Up, Down, ChangeRoutes
  <2> QED BY <1>1, <2>1 DEF Now
<1> QED
  BY <1>2, <1>3, <1>4, <1>5, <1>6, <1>7, <1>8 DEF Next, Registering, Sending

(* The sockets of each CLA and its records have their types, and a record  *)
(* names a socket of its own, through every Register, Bind and Unregister. *)
THEOREM SocketTypes == Spec => []TypeOK
<1>1. SocketInv => TypeOK
  BY DEF SocketInv, Recorded, Now, TypeOK
<1> QED BY <1>1, SocketInvInit, SocketInvNext, PTL DEF Spec
----------------------------------------------------------------------------
(* Where endpoints have ports of their own, the port of an endpoint is the *)
(* same for ever, every record is for that port, and an active endpoint is *)
(* listened for on it.                                                     *)
Homes == \A e \in LocalEids : routes[e] = InitRoutes[e]

Reached(net, e) ==
  \A k \in 1..Len(ClaSeq) :
    Listening(net.sockets, Transport[ClaSeq[k]], ListenPort(InitRoutes, ClaSeq[k], e))

HomeInv ==
  /\ SocketInv
  /\ Homes
  /\ AtHome(Now)
  /\ \A e \in LocalEids : reg[e] = "active" => Reached(Now, e)

(* The port of a local endpoint is that of its initial route.              *)
LEMMA HomesKeepPorts ==
  ASSUME Homes, NEW e \in LocalEids
  PROVE  Same(e)
<1>1. routes[e] = InitRoutes[e]
  BY DEF Homes
<1>2. UpRoutes(routes, e) = UpRoutes(InitRoutes, e)
  BY <1>1 DEF UpRoutes
<1>3. GetRoute(routes, e) = GetRoute(InitRoutes, e)
  BY <1>1, <1>2 DEF GetRoute, FirstUp
<1> QED BY <1>3 DEF Same, ListenPort

(* The invariant of own ports at first.                                    *)
LEMMA HomeInvInit == Init => HomeInv
<1> SUFFICES ASSUME Init PROVE HomeInv
  OBVIOUS
<1>1. LocalEids \subseteq Eids
  BY SocketAssumption
<1>2. Homes
  BY DEF Init, Homes
<1>3. AtHome(Now)
  BY DEF Init, Now, AtHome
<1>4. \A e \in LocalEids : reg[e] # "active"
  BY <1>1 DEF Init
<1> QED BY <1>2, <1>3, <1>4, SocketInvInit DEF HomeInv

(* The routes of local endpoints stay as they are.                         *)
LEMMA HomesStay ==
  ASSUME OwnPorts, SocketInv, Homes, [Next]_vars
  PROVE  Homes'
<1>1. CASE UNCHANGED routes
  BY <1>1 DEF Homes
<1>2. CASE Routing
  <2>1. \A r \in NewRoutes : r[1] \in Eids /\ r[1] \notin LocalEids
    BY SocketAssumption DEF OwnPorts
  <2>2. routes \in [Eids -> Seq(Route)] /\ LocalEids \subseteq Eids
    BY SocketAssumption DEF SocketInv, RouteTable
  <2>3. ASSUME NEW r \in NewRoutes, Add(r[1], r[2])
        PROVE  Homes'
    BY <2>1, <2>2, <2>3 DEF Add, ChangeRoutes, AddRoute, Homes
  <2>4. ASSUME NEW r \in NewRoutes, NEW notes,
               Up(r[1], r[2].nxtHop, notes) \/ Down(r[1], r[2].nxtHop, notes)
        PROVE  Homes'
    <3>1. PICK new : routes' = [routes EXCEPT ![r[1]] = new]
      BY <2>4, Zenon DEF Up, Down, ChangeRoutes, UpRoute, DownRoute, SetRoute
    <3> QED BY <2>1, <2>2, <3>1 DEF Homes
  <2> QED BY <1>2, <2>3, <2>4 DEF Routing
<1>3. CASE Registering
  BY <1>1, <1>3 DEF Registering, Register, Unregister, Bind, Close
<1>4. CASE Sending
  BY <1>1, <1>4 DEF Sending, Forward
<1> QED BY <1>1, <1>2, <1>3, <1>4 DEF Next, vars

(* Register or Bind of e: e is listened for, and so are the others still.  *)
LEMMA EnableReaches ==
  ASSUME HomeInv, NEW e \in LocalEids, SetSockets(EnableAll(e))
  PROVE  /\ AtHome(Now')
         /\ Reached(Now', e)
         /\ \A f \in LocalEids : Reached(Now, f) => Reached(Now', f)
<1>1. e \in Eids /\ routes \in RouteTable /\ Recorded(Now) /\ AtHome(Now) /\ Same(e)
  BY SocketAssumption, HomesKeepPorts DEF HomeInv, SocketInv
<1>2. /\ Recorded(EnableAll(e)) /\ Keeps(Now, EnableAll(e)) /\ AtHome(EnableAll(e))
      /\ \A k \in 1..Len(ClaSeq) :
           Listening(EnableAll(e).sockets, Transport[ClaSeq[k]],
                     ListenPort(routes, ClaSeq[k], e))
  BY <1>1, EnableAllEffect
<1>3. Now' = EnableAll(e)
  BY <1>2, SetSocketsNow
<1>4. \A k \in 1..Len(ClaSeq) : ClaSeq[k] \in Clas
  BY SocketAssumption
<1>5. Reached(EnableAll(e), e)
  BY <1>1, <1>2, <1>4 DEF Reached, Same
<1>6. \A f \in LocalEids : Reached(Now, f) => Reached(EnableAll(e), f)
  BY <1>2 DEF Reached, Keeps
<1> QED BY <1>2, <1>3, <1>5, <1>6

(* Unregister of e: the others are listened for still.                     *)
LEMMA DisableReaches ==
  ASSUME OwnPorts, HomeInv, NEW e \in LocalEids, SetSockets(DisableAll(e))
  PROVE  /\ AtHome(Now')
         /\ \A f \in LocalEids : f # e /\ Reached(Now, f) => Reached(Now', f)
<1>1. e \in Eids /\ Recorded(Now) /\ AtHome(Now)
  BY SocketAssumption DEF HomeInv, SocketInv
<1>2. /\ Recorded(DisableAll(e)) /\ AtHome(DisableAll(e))
      /\ \A t, p :
           (Listening(sockets, t, p) /\ (\A c \in Clas : Other(t, p, c, e)))
           => Listening(DisableAll(e).sockets, t, p)
  BY <1>1, DisableAllEffect
<1>3. Now' = DisableAll(e)
  BY <1>2, SetSocketsNow
<1>4. \A k \in 1..Len(ClaSeq) : ClaSeq[k] \in Clas
  BY SocketAssumption
<1>5. ASSUME NEW f \in LocalEids, f # e, Reached(Now, f)
      PROVE  Reached(DisableAll(e), f)
  <2> SUFFICES ASSUME NEW k \in 1..Len(ClaSeq)
               PROVE  Listening(DisableAll(e).sockets, Transport[ClaSeq[k]],
                                ListenPort(InitRoutes, ClaSeq[k], f))
    BY DEF Reached
  <2>1. Listening(sockets, Transport[ClaSeq[k]], ListenPort(InitRoutes, ClaSeq[k], f))
    BY <1>5 DEF Reached, Now
  <2>2. \A c \in Clas : Other(Transport[ClaSeq[k]], ListenPort(InitRoutes, ClaSeq[k], f), c, e)
    BY <1>4, <1>5 DEF OwnPorts, Other
  <2> QED BY <1>2, <2>1, <2>2
<1> QED BY <1>2, <1>3, <1>5

(* Each action preserves it.                                               *)
LEMMA HomeInvNext ==
  ASSUME OwnPorts
  PROVE  HomeInv /\ [Next]_vars => HomeInv'
<1> SUFFICES ASSUME HomeInv, [Next]_vars
             PROVE  HomeInv'
  OBVIOUS
<1> DEFINE Active == \A f \in LocalEids : reg[f] = "active" => Reached(Now, f)
<1>1. SocketInv' /\ Homes'
  BY SocketInvNext, HomesStay DEF HomeInv
<1>2. reg \in [Eids -> Registration] /\ LocalEids \subseteq Eids /\ AtHome(Now) /\ Active
  BY SocketAssumption DEF HomeInv, SocketInv
<1>3. ASSUME UNCHANGED <<sockets, recv>>
      PROVE  AtHome(Now') /\ \A f \in LocalEids : Reached(Now, f) => Reached(Now', f)
  <2>1. Now' = Now
    BY <1>3 DEF Now
  <2> QED BY <1>2, <2>1
<1>4. SUFFICES AtHome(Now') /\ Active'
  BY <1>1 DEF HomeInv
<1>5. ASSUME UNCHANGED <<reg, sockets, recv>>
      PROVE  AtHome(Now') /\ Active'
  BY <1>2, <1>3, <1>5
<1>6. CASE UNCHANGED vars
  BY <1>5, <1>6 DEF vars
<1>7. ASSUME NEW e \in LocalEids, NEW s \in {"passive", "active"}, Register(e, s)
      PROVE  AtHome(Now') /\ Active'
  <2>1. reg' = [reg EXCEPT ![e] = s]
    BY <1>7 DEF Register
  <2>2. CASE s = "active"
    <3>1. SetSockets(EnableAll(e))
      BY <1>7, <2>2 DEF Register
    <3> QED BY <1>2, <2>1, <3>1, EnableReaches
  <2>3. CASE s # "active"
    <3>1. UNCHANGED <<sockets, recv>>
      BY <1>7, <2>3 DEF Register
    <3> QED BY <1>2, <1>3, <2>1, <2>3, <3>1
  <2> QED BY <2>2, <2>3
<1>8. ASSUME NEW e \in LocalEids, Unregister(e)
      PROVE  AtHome(Now') /\ Active'
  <2>1. reg' = [reg EXCEPT ![e] = "passive"] /\ SetSockets(DisableAll(e))
    BY <1>8 DEF Unregister
  <2> QED BY <1>2, <2>1, DisableReaches
<1>9. ASSUME NEW e \in LocalEids, Bind(e)
      PROVE  AtHome(Now') /\ Active'
  <2>1. reg' = [reg EXCEPT ![e] = "active"] /\ SetSockets(EnableAll(e))
    BY <1>9 DEF Bind
  <2> QED BY <1>2, <2>1, EnableReaches
<1>10. ASSUME NEW e \in LocalEids, Close(e)
       PROVE  AtHome(Now') /\ Active'
  <2>1. reg' = [reg EXCEPT ![e] = "none"] /\ UNCHANGED <<sockets, recv>>
    BY <1>10 DEF Close
  <2> QED BY <1>2, <1>3, <2>1
<1>11. CASE Sending
  BY <1>5, <1>11 DEF Sending, Forward
<1>12. CASE Routing
  BY <1>5, <1>12 DEF Routing, Add, Up, Down, ChangeRoutes
<1> QED
  BY <1>6, <1>7, <1>8, <1>9, <1>10, <1>11, <1>12 DEF Next, Registering

(* Where endpoints have ports of their own, an active endpoint has an open *)
(* socket on its port with every CLA, whatever was registered, closed,     *)
(* bound again or failed to listen before.                                 *)
THEOREM ActiveReachable ==
  ASSUME OwnPorts
  PROVE  Spec => []ActiveIsReachable
<1>1. HomeInv => ActiveIsReachable
  <2> SUFFICES ASSUME HomeInv, NEW e \in LocalEids, reg[e] = "active",
                      NEW k \in 1..Len(ClaSeq)
               PROVE  Listening(sockets, Transport[ClaSeq[k]],
                                ListenPort(routes, ClaSeq[k], e))
    BY DEF ActiveIsReachable
  <2>1. ClaSeq[k] \in Clas
    BY SocketAssumption
  <2>2. Listening(sockets, Transport[ClaSeq[k]], ListenPort(InitRoutes, ClaSeq[k], e))
    BY DEF HomeInv, Reached, Now
  <2>3. ListenPort(routes, ClaSeq[k], e) = ListenPort(InitRoutes, ClaSeq[k], e)
    BY <2>1, HomesKeepPorts DEF HomeInv, Same
  <2> QED BY <2>2, <2>3
<1>2. HomeInv /\ [Next]_vars => HomeInv'
  BY HomeInvNext
<1> QED BY <1>1, <1>2, HomeInvInit, PTL DEF Spec
=============================================================================
