--------------------------- MODULE CustodyTransfer ---------------------------
(***************************************************************************)
(* What custody transfer promises for one application data unit (ADU): the *)
(* custodian gives it up only when every byte has reached the agent of the *)
(* destination, or when it expires, and the application there gets the     *)
(* whole ADU or nothing.                                                   *)
(***************************************************************************)
EXTENDS Integers

CONSTANT AduSize

VARIABLES
  custody,  \* of the source: "none" before the ADU is sent
  reached,  \* the bytes that have reached the destination's agent
  taken     \* the sizes of what the application received

vars == <<custody, reached, taken>>

Bytes == 0 .. (AduSize - 1)

Init == custody = "none" /\ reached = {} /\ taken = {}

Accept == custody = "none" /\ custody' \in {"held", "expired"} /\ UNCHANGED <<reached, taken>>

Reach ==
  /\ custody # "none"
  /\ reached' \in SUBSET Bytes /\ reached \subseteq reached'
  /\ UNCHANGED <<custody, taken>>

Release ==
  /\ custody = "held" /\ reached = Bytes
  /\ custody' = "released"
  /\ UNCHANGED <<reached, taken>>

Expire == custody = "held" /\ custody' = "expired" /\ UNCHANGED <<reached, taken>>

Take == reached = Bytes /\ taken' = taken \cup {AduSize} /\ UNCHANGED <<custody, reached>>

Next == Accept \/ Reach \/ Release \/ Expire \/ Take
Spec == Init /\ [][Next]_vars
=============================================================================
