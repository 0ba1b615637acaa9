------------------------------ MODULE BpHeader6 ------------------------------
(***************************************************************************)
(* The primary header of a version 6 bundle (BpHeader, BpHeader6): what    *)
(* its setters are asked for, what its getters answer, and what is left of *)
(* it after Serialize and Deserialize.                                     *)
(*                                                                         *)
(* Processing flags are the set of the bits that are 1; everything else is *)
(* byte-exact.  CBHE is not in use: Bundle6 makes the sender's header      *)
(* without, and BpCla::DataRecv the receiver's unless UseCbhe was called.  *)
(***************************************************************************)
EXTENDS Sdnv, BpEndpointId, BitSets

CONSTANTS
  Uris,           \* of the endpoint ids a caller sets
  Flags,          \* the bits with a setter of their own that a caller uses
  Priorities,     \* arguments of SetPriority
  Lifetimes,      \* arguments of SetLifeTime
  Second,         \* a second in the unit of Lifetimes
  Values,         \* arguments of the setters of numbers
  MaxDictionary   \* bound on the characters of the dictionary

Bits == 0..18
PriorityBits == 7..14
Roles == {"dst", "src", "report", "cust"}
Numbers == {"blockLength", "createTimestamp", "timestampSeqNum", "fragOffset", "aduLength"}
MaxOffset == 65535   \* an offset is a uint16_t

ASSUME HeaderAssumption ==
  /\ Flags \subseteq (Bits \ PriorityBits) \cup {14}
  /\ Priorities \subseteq Byte /\ Lifetimes \subseteq Nat /\ Second \in Nat \ {0}
  /\ Values \subseteq Nat /\ MaxDictionary \in 0..MaxOffset
  /\ \A uri \in Uris : uri \in Text /\ HasSsp(FromUri(uri))

VARIABLES
  header,  \* the sender's header
  asked    \* the last argument of each setter, all of SetPriority's

vars == <<header, asked>>

----------------------------------------------------------------------------
\* Mutant of SetFlag: FALSE does not clear the flag.
SetFlagOnly(flags, b, value) == IF value THEN flags \cup {b} ELSE flags
SetFlag(flags, b, value) == IF value THEN flags \cup {b} ELSE flags \ {b}

(* BUNDLE_PRIORITY is 0xEF << 7: not bit 11, and bit 14 of a report flag.  *)
BUNDLE_PRIORITY == {b + 7 : b \in BitsOf(239, 0..7)}

(* The assignment is an |=: no bit is cleared.                             *)
SetPriority(flags, pri) == flags \cup {b + 7 : b \in BitsOf(pri, 0..7)}
\* Mutant of Priority: the bits are not shifted back.
PriorityUnshifted(flags) == NumberOf(flags \cap BUNDLE_PRIORITY)
Priority(flags) == NumberOf({b - 7 : b \in flags \cap BUNDLE_PRIORITY})

(* SetDestinationEid and the others: both names are always appended, with  *)
(* a zero behind each.                                                     *)
\* Mutant of SetEid: the offset of the second name is taken too early.
SetEidEarly(h, role, eid) ==
  [h EXCEPT !.offset[role] = <<Len(h.dictionary), Len(h.dictionary)>>,
            !.dictionary = @ \o Scheme(eid) \o <<0>> \o Ssp(eid) \o <<0>>]
SetEid(h, role, eid) ==
  [h EXCEPT !.offset[role] = <<Len(h.dictionary), Len(h.dictionary) + Len(Scheme(eid)) + 1>>,
            !.dictionary = @ \o Scheme(eid) \o <<0>> \o Ssp(eid) \o <<0>>]

(* GetDestinationEid and the others.                                       *)
NameAt(dictionary, offset) ==
  SubSeq(dictionary, offset + 1,
         Min({k \in (offset + 1)..Len(dictionary) : dictionary[k] = 0}) - 1)
GetEid(h, role) ==
  FromComponents(NameAt(h.dictionary, h.offset[role][1]), NameAt(h.dictionary, h.offset[role][2]))

----------------------------------------------------------------------------
(* Numbers before the dictionary and behind it; the lifetime in seconds.   *)
Fields(h) ==
  LET o == h.offset
  IN  <<NumberOf(h.flags), h.number["blockLength"],
        o["dst"][1], o["dst"][2], o["src"][1], o["src"][2],
        o["report"][1], o["report"][2], o["cust"][1], o["cust"][2],
        h.number["createTimestamp"], h.number["timestampSeqNum"],
        h.lifetime \div Second, Len(h.dictionary)>>

Encoded(numbers) ==
  LET upTo[k \in 0..Len(numbers)] ==
        IF k = 0 THEN <<>> ELSE upTo[k - 1] \o Encode(numbers[k])
  IN  upTo[Len(numbers)]

Version == 6
Serialize(h) ==
  <<Version>> \o Encoded(Fields(h)) \o h.dictionary \o
  Encoded(<<h.number["fragOffset"], h.number["aduLength"]>>)

(* Positions in a buffer: where each of the 14 numbers begins, and where   *)
(* the dictionary does.                                                    *)
FieldCount == 14
Begin(buffer) ==
  LET at[k \in 1..(FieldCount + 1)] == IF k = 1 THEN 2 ELSE Behind(buffer, at[k - 1])
  IN  at

(* The field of each role's first offset.                                  *)
\* Mutant of OffsetField: the source is taken for the destination.
OffsetFieldSwapped(role) ==
  CASE role = "src" -> 3 [] role = "dst" -> 5 [] role = "report" -> 7 [] role = "cust" -> 9
OffsetField(role) ==
  CASE role = "dst" -> 3 [] role = "src" -> 5 [] role = "report" -> 7 [] role = "cust" -> 9

(* Where the dictionary ends, and what Deserialize returns.                *)
BehindNames(buffer) ==
  Begin(buffer)[FieldCount + 1] + Decode(buffer, Begin(buffer)[FieldCount])
SizeRead(buffer) == Behind(buffer, Behind(buffer, BehindNames(buffer))) - 1

Deserialize(buffer) ==
  LET at == Begin(buffer)
      field(k) == Decode(buffer, at[k])
      frag == BehindNames(buffer)
  IN  [flags |-> BitsOf(field(1), Bits),
       offset |-> [r \in Roles |-> <<field(OffsetField(r)), field(OffsetField(r) + 1)>>],
       number |-> [n \in Numbers |->
         CASE n = "blockLength" -> field(2)
           [] n = "createTimestamp" -> field(11) [] n = "timestampSeqNum" -> field(12)
           [] n = "fragOffset" -> Decode(buffer, frag)
           [] n = "aduLength" -> Decode(buffer, Behind(buffer, frag))],
       lifetime |-> field(13) * Second,
       dictionary |-> SubSeq(buffer, at[15], frag - 1)]

Received == Deserialize(Serialize(header))

----------------------------------------------------------------------------
(* What the constructor of Bundle6 makes.                                  *)
NewHeader ==
  [flags |-> {}, offset |-> [r \in Roles |-> <<0, 0>>],
   number |-> [n \in Numbers |-> 0], lifetime |-> 0, dictionary |-> <<>>]
defaultEid == FromUri(DtnNone)

Init ==
  /\ header = SetEid(SetEid(SetEid(SetEid(NewHeader, "src", defaultEid),
                "dst", defaultEid), "report", defaultEid), "cust", defaultEid)
  /\ asked = [flag |-> [b \in Flags |-> FALSE], eid |-> [r \in Roles |-> defaultEid],
              priorities |-> {}]

AskFlag(b, value) ==
  /\ header' = [header EXCEPT !.flags = SetFlag(@, b, value)]
  /\ asked' = [asked EXCEPT !.flag[b] = value]

AskPriority(pri) ==
  /\ header' = [header EXCEPT !.flags = SetPriority(@, pri)]
  /\ asked' = [asked EXCEPT !.priorities = @ \cup {pri}]

AskEid(role, eid) ==
  /\ Len(header.dictionary) + Len(Scheme(eid)) + Len(Ssp(eid)) + 2 <= MaxDictionary
  /\ header' = SetEid(header, role, eid)
  /\ asked' = [asked EXCEPT !.eid[role] = eid]

SetNumber(n, value) ==
  /\ header' = [header EXCEPT !.number[n] = value]
  /\ UNCHANGED asked

SetLifeTime(lifetime) ==
  /\ header' = [header EXCEPT !.lifetime = lifetime]
  /\ UNCHANGED asked

Next ==
  \/ \E b \in Flags, value \in BOOLEAN : AskFlag(b, value)
  \/ \E pri \in Priorities : AskPriority(pri)
  \/ \E role \in Roles, uri \in Uris : AskEid(role, FromUri(uri))
  \/ \E n \in Numbers, value \in Values : SetNumber(n, value)
  \/ \E lifetime \in Lifetimes : SetLifeTime(lifetime)

Spec == Init /\ [][Next]_vars

(* Callers that keep to the interface: endpoint ids have both parts, and a *)
(* priority stays within its mask and clear of the flags that are set.     *)
Proper ==
  /\ \A uri \in Uris : HasParts(uri)
  /\ \A pri \in Priorities :
       SetPriority({}, pri) \subseteq BUNDLE_PRIORITY \ Flags

----------------------------------------------------------------------------
(* Each flag is as its setter was last asked for, whatever was asked of    *)
(* the other flags and of the priority, which share one word               *)
(* (BpHeader::SetIsFragment and the like, SetPriority).                    *)
FlagsAreAsSet ==
  \A b \in Flags : (b \in header.flags) = asked.flag[b]

(* Endpoint ids share one dictionary that is only ever appended to: each   *)
(* getter answers its own setter, in any order and when one is set twice,  *)
(* though the URI is taken apart and put together again on the way         *)
(* (SetDestinationEid and the others, BpEndpointId).                       *)
EidsAreAsSet == \A r \in Roles : Same(GetEid(header, r), asked.eid[r])

(* A priority is read back if no other one was set before and no report of *)
(* reception is asked for, which is how BpAgent6::Send sets it             *)
(* (SetPriority, Priority and the mask they share).                        *)
PriorityIsAsSet ==
  \A pri \in Priorities :
    asked.priorities = {pri} /\ 14 \notin header.flags => Priority(header.flags) = pri

(* What the receiver decodes is the header, its lifetime cut to seconds,   *)
(* though nothing but the numbers themselves says where a field ends       *)
(* (BpHeader6::SerializeAndGetSize, Deserialize).                          *)
Sent == [header EXCEPT !.lifetime = @ - (@ % Second)]
DecodedIsEncoded == Received = Sent
=============================================================================
