----------------------------- MODULE BpEndpointId -----------------------------
(***************************************************************************)
(* Endpoint ids: a URI, and where in it its scheme ends.  Text is the      *)
(* sequence of the codes of its characters, none of them 0.                *)
(*                                                                         *)
(* The second part reaches to the end of the URI: its length is computed   *)
(* before m_uri is set when the constructor is given a URI, but substr     *)
(* stops at the end in any case.                                           *)
(***************************************************************************)
EXTENDS Integers, Sequences, FiniteSetsExt

Character == 1..255
Text == Seq(Character)

Colon == 58
DtnNone == <<100, 116, 110, 58, 110, 111, 110, 101>>   \* "dtn:none"
MaxComponent == 1023

(* ParseComponent: a part that is missing makes it "dtn" and "none", one   *)
(* that is too long is cut; but m_uri remains as it is.                    *)
Parsed(uri, scheme, ssp) ==
  [uri |-> uri,
   schemeLength |-> IF scheme = <<>> \/ ssp = <<>> THEN 3
                    ELSE Min({Len(scheme), MaxComponent})]

(* The constructors.  A URI without a colon leaves both parts "dtn:none".  *)
FromComponents(scheme, ssp) == Parsed(scheme \o <<Colon>> \o ssp, scheme, ssp)

Colons(uri) == {k \in DOMAIN uri : uri[k] = Colon}
FromUri(uri) ==
  IF Colons(uri) = {} THEN Parsed(uri, DtnNone, DtnNone)
  ELSE LET at == Min(Colons(uri)) IN
       Parsed(uri, SubSeq(uri, 1, at - 1), SubSeq(uri, at + 1, Len(uri)))

(* The second part may be asked for: otherwise substr throws.              *)
HasSsp(eid) == eid.schemeLength + 1 <= Len(eid.uri)

(* A URI with both parts, neither of them missing nor too long: what       *)
(* callers give, and a header gives back.                                  *)
HasParts(uri) ==
  /\ Colons(uri) # {}
  /\ Min(Colons(uri)) \in 2..(MaxComponent + 1) /\ Min(Colons(uri)) + 1 <= Len(uri)

Scheme(eid) == SubSeq(eid.uri, 1, Min({eid.schemeLength, Len(eid.uri)}))
Ssp(eid) == SubSeq(eid.uri, eid.schemeLength + 2, Len(eid.uri))

(* operator ==.                                                            *)
Same(eid1, eid2) == eid1.uri = eid2.uri
=============================================================================
