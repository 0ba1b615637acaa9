----------------------------- MODULE MCBpPacket6 -----------------------------
(***************************************************************************)
(* Values for BpPacket6: endpoint ids d:n and d:f:f, an ADU whose bytes    *)
(* all differ, numbers of one and of two bytes on the wire, and unwritten  *)
(* bytes that would run on if they were read.                              *)
(***************************************************************************)
EXTENDS BpPacket6

near == <<100, 58, 110>>
far == <<100, 58, 102, 58, 102>>
MCUris == {near, far}
MCAdu == [k \in 1..256 |-> k - 1]

(* The theorems speak of this instance.                                    *)
ASSUME InstanceAssumption == Proper /\ LengthFits
=============================================================================
