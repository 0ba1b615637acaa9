----------------------------- MODULE MCBpBundle7 -----------------------------
(***************************************************************************)
(* Endpoint ids of both schemes, one with the longest name whose encoding  *)
(* EncodeEID can count, and payloads on both sides of a change of length.  *)
(***************************************************************************)
EXTENDS BpBundle7

Letters(n) == [k \in 1..n |-> 97]
MCEids ==
  {[uri |-> dtn, ssp |-> Letters(LongestName)], [uri |-> ipn, ssp |-> <<24, 1>>]}
MCAdus == {Letters(0), Letters(48)}
=============================================================================
