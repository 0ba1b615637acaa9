------------------------------ MODULE BpPacket6 ------------------------------
(***************************************************************************)
(* What a convergence layer makes of a version 6 bundle and back           *)
(* (BpCla::SendBundle, DataRecv, BpBlockHeader6), and the custody signal   *)
(* that answers it (SendCustodySignal, AdminRecord, CustodySignal), as the *)
(* custodian reads it.  The headers are those of BpHeader6.                *)
(*                                                                         *)
(* Forward sets the payload block's length and the primary header's        *)
(* together, so that both are header.number["blockLength"].                *)
(***************************************************************************)
EXTENDS BpHeader6

CONSTANTS
  BlockFlags,   \* bits of the payload block's flags that a caller uses
  Adu,          \* the payload, a sequence of bytes
  Unwritten,    \* what stands in a byte that was reserved and not written
  Now           \* the time of the signal, in milliseconds

ASSUME PacketAssumption ==
  /\ BlockFlags \subseteq 0..6 /\ Adu \in Seq(Byte) /\ Unwritten \in Byte /\ Now \in Nat

VARIABLE blockFlags  \* the payload block's

----------------------------------------------------------------------------
(* Packets                                                                 *)
IsFragment == 0               \* bit of the processing flags
BUNDLE_PAYLOAD_BLOCK == 1
HeaderLength == 6             \* m_length: reserved whatever is written

SerializePayloadHeader(h, flags) ==
  LET written == <<BUNDLE_PAYLOAD_BLOCK>> \o Encode(NumberOf(flags)) \o
                 Encode(h.number["blockLength"])
  IN  written \o [k \in 1..(HeaderLength - Len(written)) |-> Unwritten]

(* CreateFragment, with an offset and a size.                              *)
\* Mutant of Cut: with an offset and an end.
CutTo(h) == SubSeq(Adu, h.number["fragOffset"] + 1, h.number["blockLength"])
Cut(h) ==
  SubSeq(Adu, h.number["fragOffset"] + 1, h.number["fragOffset"] + h.number["blockLength"])

SendBundle(h, flags) == Serialize(h) \o SerializePayloadHeader(h, flags) \o Cut(h)

DataRecv(packet) ==
  LET payload == SizeRead(packet) + 1
  IN  [header |-> Deserialize(packet),
       blockFlags |-> BitsOf(Decode(packet, payload + 1), 0..7),
       blockLength |-> Decode(packet, Behind(packet, payload + 1)),
       adu |-> SubSeq(packet, payload + HeaderLength, Len(packet))]

Arrived == DataRecv(SendBundle(header, blockFlags))

----------------------------------------------------------------------------
(* Custody signals; the second part of a signal's bytes is the source's    *)
(* URI.                                                                    *)
_BP_AR_CS == 2
_BP_AR_FRAG == 1
Succeeded == 128

CustodySignal(bundle) ==
  [status |-> Succeeded,
   fragmentOffset |-> bundle.header.number["fragOffset"],
   fragmentLength |-> IF IsFragment \in bundle.header.flags THEN Len(bundle.adu) ELSE 0,
   timeOfSignal |-> Now,
   creationTimestamp |-> bundle.header.number["createTimestamp"],
   seqNo |-> bundle.header.number["timestampSeqNum"],
   srcEid |-> GetEid(bundle.header, "src").uri]

\* Mutant of SignalNumbers: the sequence number before the timestamp.
SignalNumbersSwapped(cs) ==
  <<cs.fragmentOffset, cs.fragmentLength, cs.timeOfSignal \div 1000,
    cs.seqNo, cs.creationTimestamp, Len(cs.srcEid)>>
SignalNumbers(cs) ==
  <<cs.fragmentOffset, cs.fragmentLength, cs.timeOfSignal \div 1000,
    cs.creationTimestamp, cs.seqNo, Len(cs.srcEid)>>

(* The record and the signal; the time is cut to seconds on the way out,   *)
(* and taken for milliseconds on the way in.                               *)
SendCustodySignal(bundle) ==
  LET cs == CustodySignal(bundle)
      typeFlags == 16 * _BP_AR_CS + (IF IsFragment \in bundle.header.flags THEN _BP_AR_FRAG ELSE 0)
  IN  <<typeFlags, cs.status>> \o Encoded(SignalNumbers(cs)) \o cs.srcEid

IsCustodySignal(adu) == (adu[1] \div (16 * _BP_AR_CS)) % 2 = 1
ReadCustodySignal(adu) ==
  LET at[k \in 1..7] == IF k = 1 THEN 3 ELSE Behind(adu, at[k - 1])
      field(k) == Decode(adu, at[k])
  IN  [status |-> adu[2], fragmentOffset |-> field(1), fragmentLength |-> field(2),
       timeOfSignal |-> field(3), creationTimestamp |-> field(4), seqNo |-> field(5),
       srcEid |-> SubSeq(adu, at[7], at[7] + field(6) - 1)]

(* BundleStore::GetBundle, as a custody signal asks for a bundle.          *)
Finds(cs, h) ==
  /\ Same(FromUri(cs.srcEid), GetEid(h, "src"))
  /\ cs.creationTimestamp = h.number["createTimestamp"]
  /\ cs.seqNo = h.number["timestampSeqNum"]

----------------------------------------------------------------------------
PacketInit == Init /\ blockFlags = {}

SetBlockFlag(b, value) ==
  /\ blockFlags' = SetFlag(blockFlags, b, value)
  /\ UNCHANGED vars

PacketNext ==
  \/ Next /\ UNCHANGED blockFlags
  \/ \E b \in BlockFlags, value \in BOOLEAN : SetBlockFlag(b, value)

PacketSpec == PacketInit /\ [][PacketNext]_<<header, asked, blockFlags>>

----------------------------------------------------------------------------
(* The payload's length is a number of four bytes at most, which is what   *)
(* HeaderLength leaves room for: a longer one is written beyond it.        *)
LengthFits == Len(Adu) < 128 * 128 * 128 * 128

(* Forward cuts within the ADU.                                            *)
Sendable == header.number["fragOffset"] + header.number["blockLength"] <= Len(Adu)

Holds(adu, offset, length) ==
  Len(adu) = length /\ \A k \in 1..length : adu[k] = Adu[offset + k]

(* A convergence layer receives the bundle that was sent: the header (its  *)
(* lifetime in seconds), the payload block's flags and length, and of the  *)
(* ADU the bytes that the header says it holds, though one header takes    *)
(* the bytes it reads and the other a fixed number (SendBundle, DataRecv). *)
PacketIsWhole ==
  Sendable =>
    LET arrived == Arrived IN
    /\ arrived.header = Sent /\ arrived.blockFlags = blockFlags
    /\ arrived.blockLength = header.number["blockLength"]
    /\ Holds(arrived.adu, header.number["fragOffset"], header.number["blockLength"])

(* The signal that answers a bundle finds it in the custodian's store, and *)
(* acknowledges the bytes the bundle held if it is a fragment, none if it  *)
(* is not (SendCustodySignal, EnqueueForDeliveryToApplication).            *)
SignalFindsItsBundle ==
  Sendable =>
    LET adu == SendCustodySignal(Arrived)
        cs == ReadCustodySignal(adu)
    IN  /\ IsCustodySignal(adu) /\ cs.status = Succeeded
        /\ Finds(cs, header)
        /\ cs.fragmentOffset = header.number["fragOffset"]
        /\ cs.fragmentLength =
             IF IsFragment \in header.flags THEN header.number["blockLength"] ELSE 0
=============================================================================
