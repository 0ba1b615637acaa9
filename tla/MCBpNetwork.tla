----------------------------- MODULE MCBpNetwork -----------------------------
(***************************************************************************)
(* Two nodes, or three with a relay between them.  A CLA is named after    *)
(* the node behind it.                                                     *)
(***************************************************************************)
EXTENDS BpNetwork, TLC

CONSTANTS none, src, dst, relay, sender, receiver, S, D, R

MCEids == {none, src, dst, relay, sender, receiver}
NodeEid(n) == IF n = S THEN src ELSE IF n = D THEN dst ELSE relay
ClaTo(near, far) ==
  [e \in MCEids |-> IF e \in {dst, receiver} THEN far
                    ELSE IF e \in {src, sender} THEN near ELSE NoCla]

DirectEid == [n \in {S, D} |-> NodeEid(n)]
DirectClas == [c \in {S, D} |-> c]
DirectRoutes == [n \in {S, D} |-> IF n = S THEN ClaTo(NoCla, D) ELSE ClaTo(S, NoCla)]

RelayedEid == [n \in {S, R, D} |-> NodeEid(n)]
RelayedClas == [c \in {S, R, D} |-> c]
RelayedRoutes ==
  [n \in {S, R, D} |-> IF n = S THEN ClaTo(NoCla, R)
                       ELSE IF n = R THEN ClaTo(S, D) ELSE ClaTo(R, NoCla)]

(* The theorems about custody transfer speak of the instances without a    *)
(* relay.                                                                  *)
ASSUME InstanceAssumption == Nodes = {S, D} => Direct

RefSymmetry == Permutations(Refs)
=============================================================================
