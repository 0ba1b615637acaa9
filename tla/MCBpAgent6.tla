---------------------------- MODULE MCBpAgent6 ----------------------------
(***************************************************************************)
(* Small instances of BpAgent6.  The node registers the endpoint app next  *)
(* to its own endpoint me; peer is the endpoint of the next node.          *)
(***************************************************************************)
EXTENDS BpAgent6, TLC

CONSTANTS none, me, app, peer, link

MCEids == {none, me, app, peer}

(* A bundle as a CLA builds it from what it received.                      *)
Wire(src, dst, id, life, custody, content) ==
  [src |-> src, dst |-> dst, id |-> id, prio |-> 0, life |-> life,
   custody |-> custody, custEid |-> IF custody THEN peer ELSE none,
   frag |-> FALSE, off |-> 0, aduLen |-> 1, size |-> 1,
   content |-> content, ret |-> {}, acks |-> NoAcks]

Fragment(b, len, off, size) ==
  [b EXCEPT !.frag = TRUE, !.off = off, !.size = size, !.aduLen = len]

----------------------------------------------------------------------------
(* The node as a custodian: an application sends, in custody, an ADU of     *)
(* three bytes, where a bundle holds two, to an endpoint that is its own,   *)
(* and the agent a bundle without custody to the next node.  Signals come   *)
(* for either piece, for neither, or for a bundle the node never sent; the  *)
(* pieces come back, and a bundle to be relayed comes.                      *)
Message(size, life, custody) ==
  [src |-> app, dst |-> peer, size |-> size, content |-> AppData,
   life |-> life, custody |-> custody, prio |-> 0]

CustodianMessages ==
  {[Message(3, "finite", TRUE) EXCEPT !.dst = app],
   [Message(3, "never expires", FALSE) EXCEPT !.src = me]}

Signal(id, off, len) ==
  Wire(peer, me, 10, "never expires", FALSE,
       [src |-> app, id |-> id, off |-> off, len |-> len])

CustodianArrivals ==
  {Signal(0, e[1], e[2]) : e \in {<<0, 2>>, <<2, 1>>, <<0, 0>>}}
    \cup {[Fragment(Wire(app, app, 0, "finite", TRUE, AppData), 3, e[1], e[2])
             EXCEPT !.custEid = me] : e \in {<<0, 2>>, <<2, 1>>}}
    \cup {Signal(5, 0, 3), Wire(peer, me, 11, "never expires", FALSE, AppData)}
    \cup {Wire(none, peer, 12, "finite", TRUE, AppData)}

CustodianRoutes ==
  {[e \in MCEids |-> IF e \in {app, peer} THEN c ELSE NoCla] : c \in {link, NoCla}}

(* A bundle in custody, sent from the agent's own endpoint, and the signals *)
(* of its three pieces.                                                    *)
TimerMessages == {[Message(3, l, TRUE) EXCEPT !.src = me] : l \in Lifetimes}
TimerArrivals ==
  {Wire(peer, me, 10, "finite", FALSE, [src |-> me, id |-> 0, off |-> off, len |-> 1])
     : off \in 0..2}

TimerRoutes == {[e \in MCEids |-> IF e = peer THEN link ELSE NoCla]}
NoArrivals == {}
RefSymmetry == Permutations(Refs)
=============================================================================
