------------------------------ MODULE BpBundle7 ------------------------------
(***************************************************************************)
(* A version 7 bundle (Bundle7, BpHeader7, BpBlockHeader7) and what        *)
(* BpCla::SerializeBundle and DeserializeBundle make of it.  The agent     *)
(* does not use them yet; the test suite is their only caller.             *)
(*                                                                         *)
(* Flags are the set of the bits that are 1, numbers and names their       *)
(* bytes.  The two numbers of an endpoint id of scheme ipn are a pair: the *)
(* header keeps them as text, which sprintf and sscanf turn back.          *)
(***************************************************************************)
EXTENDS Cbor, BitSets

CONSTANTS
  Eids,         \* arguments of the setters of endpoint ids
  Flags,        \* bits of the processing flags with a setter of their own
  BlockFlags,   \* the same of the payload block
  Values,       \* arguments of the setters of numbers
  Lifetimes,    \* in milliseconds
  Adus,         \* the payloads, sequences of bytes
  Garbage       \* what a block length that was never set may be

dtn == 1
ipn == 2
None == <<110, 111, 110, 101>>   \* "none"
Zero == <<48>>                   \* "0"
defaultEid == [uri |-> dtn, ssp |-> None]

Names == Seq(1..255)
EndpointIds == [uri : {dtn}, ssp : Names] \cup [uri : {ipn}, ssp : Nat \X Nat]
Roles == {"dst", "src", "report"}
Numbers == {"createTimestamp", "timestampSeqNum", "fragOffset", "aduLength"}
Fragment == 0   \* BUNDLE_IS_FRAGMENT

(* EncodeEID counts in eight bits: a longer name overflows its result.     *)
LongestName == 251

(* Numbers are uint32_t, those of the text of an ipn endpoint as well.     *)
(* Milliseconds are written in 64 bits, but read into 32.                  *)
IsWord(n) == n \in Nat /\ Shifted(n)[4] = 0

ASSUME Bundle7Assumption ==
  /\ \A eid \in Eids :
       /\ eid \in EndpointIds
       /\ eid.uri = dtn => Len(eid.ssp) <= LongestName
       /\ eid.uri = ipn => IsWord(eid.ssp[1]) /\ IsWord(eid.ssp[2])
  /\ Flags \subseteq {0, 1, 2, 5, 6, 14, 16, 17, 18} /\ BlockFlags \subseteq {0, 1, 2, 4}
  /\ \A n \in Values \cup Lifetimes \cup Garbage : IsWord(n)
  /\ Adus \subseteq Seq(0..255)

VARIABLE bundle
vars == <<bundle>>

----------------------------------------------------------------------------
(* Encoding                                                                *)
EncodeUnsigned(n) == Encode(unsignedInteger, n)
EncodeArraySize(n) == Encode(array, n)

(* The null endpoint is the number 0 in place of a name.                   *)
EncodeEid(eid) ==
  EncodeArraySize(2) \o EncodeUnsigned(eid.uri) \o
  (IF eid.uri = ipn
   THEN EncodeArraySize(2) \o EncodeUnsigned(eid.ssp[1]) \o EncodeUnsigned(eid.ssp[2])
   ELSE IF eid.ssp = None THEN EncodeUnsigned(0) ELSE EncodeBytes(eid.ssp))

(* The endpoint ids have no end of their own: what stands behind them is   *)
(* found by reading them.                                                  *)
BeforeEids(b) ==
  EncodeArraySize(IF Fragment \in b.flags THEN 10 ELSE 8) \o
  EncodeUnsigned(7) \o EncodeUnsigned(NumberOf(b.flags)) \o EncodeUnsigned(0)

\* Mutant of FragmentFields: they are written whenever they are set.
FragmentFieldsSet(b) ==
  IF b.number["fragOffset"] = 0 /\ b.number["aduLength"] = 0 THEN <<>>
  ELSE EncodeUnsigned(b.number["fragOffset"]) \o EncodeUnsigned(b.number["aduLength"])
FragmentFields(b) ==
  IF Fragment \notin b.flags THEN <<>>
  ELSE EncodeUnsigned(b.number["fragOffset"]) \o EncodeUnsigned(b.number["aduLength"])

BehindEids(b) ==
  EncodeArraySize(2) \o EncodeUnsigned(b.number["createTimestamp"]) \o
  EncodeUnsigned(b.number["timestampSeqNum"]) \o EncodeUnsigned(b.lifetime) \o
  FragmentFields(b)

SerializePrimary(b) ==
  BeforeEids(b) \o EncodeEid(b.eid["dst"]) \o EncodeEid(b.eid["src"]) \o
  EncodeEid(b.eid["report"]) \o BehindEids(b)

(* GetSerializedSize, by which SerializeBundle lays out the packet; the    *)
(* result of EncodeEID is a uint8_t.                                       *)
\* Mutant of EidSize: a signed byte.
EidSizeSigned(eid) == ((Len(EncodeEid(eid)) + 128) % 256) - 128
EidSize(eid) == Len(EncodeEid(eid)) % 256
SizeOfPrimary(b) ==
  Len(BeforeEids(b)) + EidSize(b.eid["dst"]) + EidSize(b.eid["src"]) +
  EidSize(b.eid["report"]) + Len(BehindEids(b))

(* Type, number, flags and CRC type; the setters of number and CRC type    *)
(* do nothing.                                                             *)
SerializePayloadHeader(b) ==
  EncodeArraySize(5) \o EncodeUnsigned(1) \o EncodeUnsigned(0) \o
  EncodeUnsigned(NumberOf(b.blockFlags)) \o EncodeUnsigned(0)

(* What SerializeBundle cuts out of the ADU.                               *)
Cut(b) ==
  SubSeq(b.adu, b.number["fragOffset"] + 1, b.number["fragOffset"] + b.blockLength)

(* An array without a length, from 9f to ff.                               *)
SerializeBundle(b) ==
  <<159>> \o SerializePrimary(b) \o SerializePayloadHeader(b) \o EncodeBytes(Cut(b)) \o <<255>>

----------------------------------------------------------------------------
(* Decoding                                                                *)
UnsignedAt(buffer, i) == Decode(unsignedInteger, Item(buffer, i))

(* Where the k-th of the items that begin at i stands.                     *)
Nth(buffer, i, k) ==
  LET at[j \in 1..k] == IF j = 1 THEN i ELSE Item(buffer, at[j - 1]).next
  IN  at[k]

(* DecodeEID: the endpoint id at i, and where it ends.  A name that begins *)
(* with a zero byte is a number, and becomes its digits.                   *)
DecodeEid(buffer, i) ==
  LET ssp == Nth(buffer, i, 3)
      name == DecodeBytes(buffer, Item(buffer, ssp))
  IN  IF UnsignedAt(buffer, Nth(buffer, i, 2)) = ipn
      THEN [eid |-> [uri |-> ipn,
                     ssp |-> <<UnsignedAt(buffer, Nth(buffer, ssp, 2)),
                               UnsignedAt(buffer, Nth(buffer, ssp, 3))>>],
            next |-> Nth(buffer, ssp, 4)]
      ELSE IF buffer[ssp] = 0
      THEN [eid |-> [uri |-> dtn, ssp |-> Zero], next |-> Nth(buffer, ssp, 2)]
      ELSE [eid |-> [uri |-> dtn, ssp |-> name], next |-> Nth(buffer, ssp, 2) + Len(name)]

(* Four items, three endpoint ids, four items and, for a fragment, two.    *)
DeserializePrimary(buffer, i) ==
  LET eidAt[k \in 1..4] ==
        IF k = 1 THEN Nth(buffer, i, 5) ELSE DecodeEid(buffer, eidAt[k - 1]).next
      number(k) == UnsignedAt(buffer, Nth(buffer, eidAt[4], k))
      isFragment == Decode(array, Item(buffer, i)) > 8
  IN  [flags |-> BitsOf(UnsignedAt(buffer, Nth(buffer, i, 3)), 0..18),
       eid |-> [r \in Roles |->
         DecodeEid(buffer, eidAt[CASE r = "dst" -> 1 [] r = "src" -> 2 [] r = "report" -> 3]).eid],
       number |-> [n \in Numbers |->
         CASE n = "createTimestamp" -> number(2)
           [] n = "timestampSeqNum" -> number(3)
           [] n = "fragOffset" -> IF isFragment THEN number(5) ELSE 0
           [] n = "aduLength" -> IF isFragment THEN number(6) ELSE 0],
       lifetime |-> number(4),
       next |-> Nth(buffer, eidAt[4], IF isFragment THEN 7 ELSE 5)]

(* The payload block: its flags are the fourth item; the payload is behind *)
(* the fifth.                                                              *)
DeserializePayload(buffer, i) ==
  [flags |-> BitsOf(UnsignedAt(buffer, Nth(buffer, i, 4)), 0..7),
   adu   |-> DecodeBytes(buffer, Item(buffer, Nth(buffer, i, 6)))]

DeserializeBundle(packet) ==
  LET buffer == SubSeq(packet, 2, Len(packet) - 1)
      primary == DeserializePrimary(buffer, 1)
  IN  [primary |-> primary, payload |-> DeserializePayload(buffer, primary.next)]

Received == DeserializeBundle(SerializeBundle(bundle))

----------------------------------------------------------------------------
(* The sender's calls                                                      *)
Init ==
  \E adu \in Adus, g \in Garbage :
    bundle = [flags |-> {}, eid |-> [r \in Roles |-> defaultEid],
              number |-> [n \in Numbers |-> 0], lifetime |-> 0,
              blockFlags |-> {}, blockLength |-> g, adu |-> adu]

SetFlag(b, value) ==
  bundle' = [bundle EXCEPT !.flags = IF value THEN @ \cup {b} ELSE @ \ {b}]

SetBlockFlag(b, value) ==
  bundle' = [bundle EXCEPT !.blockFlags = IF value THEN @ \cup {b} ELSE @ \ {b}]

SetEid(role, eid) == bundle' = [bundle EXCEPT !.eid[role] = eid]
SetNumber(n, value) == bundle' = [bundle EXCEPT !.number[n] = value]
SetLifeTime(lifetime) == bundle' = [bundle EXCEPT !.lifetime = lifetime]
SetBlockLength(len) == bundle' = [bundle EXCEPT !.blockLength = len]

Next ==
  \/ \E b \in Flags, value \in BOOLEAN : SetFlag(b, value)
  \/ \E b \in BlockFlags, value \in BOOLEAN : SetBlockFlag(b, value)
  \/ \E role \in Roles, eid \in Eids : SetEid(role, eid)
  \/ \E n \in Numbers, value \in Values : SetNumber(n, value)
  \/ \E lifetime \in Lifetimes : SetLifeTime(lifetime)
  \/ \E len \in Values : SetBlockLength(len)

Spec == Init /\ [][Next]_vars

----------------------------------------------------------------------------
(* SerializeBundle may be called: the fragment lies within the ADU.        *)
Serializable == bundle.number["fragOffset"] + bundle.blockLength <= Len(bundle.adu)

(* SerializeAndGetSize, EncodeEID: the size by which the packet is laid    *)
(* out is the number of bytes the primary header writes, up to the longest *)
(* name: nothing is written over, and nothing beyond the buffer.           *)
SizeIsExact == SizeOfPrimary(bundle) = Len(SerializePrimary(bundle))

(* SerializeBundle, DeserializeBundle: what is decoded is what was         *)
(* encoded, though only the array's size tells whether the fragment fields *)
(* are there, and only reading an item tells where it ends.  The null      *)
(* endpoint comes back by another name, as the number that stands for it.  *)
Decodable(eid) == IF eid.ssp = None THEN [eid EXCEPT !.ssp = Zero] ELSE eid

IsEncoded(primary, payload) ==
  /\ primary.flags = bundle.flags /\ payload.flags = bundle.blockFlags
  /\ \A r \in Roles : primary.eid[r] = Decodable(bundle.eid[r])
  /\ \A n \in {"createTimestamp", "timestampSeqNum"} : primary.number[n] = bundle.number[n]
  /\ Fragment \in bundle.flags => primary.number = bundle.number
  /\ primary.lifetime = bundle.lifetime
  /\ payload.adu = Cut(bundle)

DecodedIsEncoded == Serializable => IsEncoded(Received.primary, Received.payload)
=============================================================================
