--------------------------- MODULE BpBundle7Proofs ---------------------------
(***************************************************************************)
(* Theorems about BpBundle7, for every sequence of the sender's calls: the *)
(* size by which SerializeBundle lays out a version 7 packet is the number *)
(* of bytes its primary header writes, and DeserializeBundle returns what  *)
(* SerializeBundle was given.                                              *)
(*                                                                         *)
(* For the size, an encoded item is its head and at most eight bytes,      *)
(* whatever their values are.  For the values, each item is read where the *)
(* one before it ends: Passed says that the items read so far are the      *)
(* bytes written so far, and the proof goes through the packet with it.    *)
(***************************************************************************)
EXTENDS BpBundle7, NumberLemmas

IsSeq(s) == \E S : s \in Seq(S)

(* s is a sequence of n elements.                                          *)
HasLen(s, n) == IsSeq(s) /\ n \in Nat /\ Len(s) = n

(* The definitions of Cbor are those that NumberLemmas speaks of.          *)
LEMMA SameShifted == \A val : Shifted(val) = Cbor!Shifted(val)
BY Zenon DEF Shifted, Cbor!Shifted

(* Each shift takes eight bits off.                                        *)
LEMMA ShiftedIs == ASSUME NEW val \in Nat PROVE Shifts(Shifted(val), val)
BY SameShifted, CborShifts

(* A number of three bytes fits a word.                                    *)
LEMMA SmallIsWord == ASSUME NEW n \in Nat, n < 256 * 256 * 256 PROVE IsWord(n)
<1> DEFINE f == Shifted(n)
<1>1. n \in Nat  OBVIOUS
<1>2. Shifts(f, n)  BY <1>1, ShiftedIs
<1> HIDE DEF f
<1>3. /\ f[0] = n /\ f[1] = f[0] \div 256 /\ f[2] = f[1] \div 256
      /\ f[3] = f[2] \div 256 /\ f[4] = f[3] \div 256
  BY <1>2 DEF Shifts
<1>4. f[0] \in Nat /\ f[0] < 256 * (256 * 256)  BY <1>3
<1>5. f[1] \in Nat /\ f[1] < 256 * 256  BY <1>3, <1>4
<1>6. f[2] \in Nat /\ f[2] < 256  BY <1>3, <1>5
<1>7. f[3] = 0  BY <1>3, <1>6
<1>8. f[4] = 0  BY <1>3, <1>7
<1> QED BY <1>1, <1>8 DEF IsWord, f

(* A word fits the widest value of an item.                                *)
LEMMA WordFits == ASSUME NEW n, IsWord(n) PROVE Fits(n)
<1> DEFINE f == Shifted(n)
<1>1. n \in Nat /\ f[4] = 0  BY DEF IsWord
<1>2. Shifts(f, n)  BY <1>1, ShiftedIs
<1> HIDE DEF f
<1>3. /\ f[5] = f[4] \div 256 /\ f[6] = f[5] \div 256
      /\ f[7] = f[6] \div 256 /\ f[8] = f[7] \div 256
  BY <1>2 DEF Shifts
<1>4. f[5] = 0  BY <1>1, <1>3
<1>5. f[6] = 0  BY <1>3, <1>4
<1>6. f[7] = 0  BY <1>3, <1>5
<1>7. f[8] = 0  BY <1>3, <1>6
<1> QED BY <1>1, <1>7 DEF Fits, f

(* How many bytes a value leaves behind the first one.                     *)
LEMMA LengthAtMost ==
  ASSUME NEW val
  PROVE  /\ Length(val) \in {0, 1, 2, 4, 8}
         /\ val < 24 => Length(val) = 0
         /\ val \in 0..255 => Length(val) \in {0, 1}
<1> DEFINE f == Shifted(val)
<1>1. Length(val) = IF val < 24 THEN 0 ELSE IF f[1] = 0 THEN 1 ELSE IF f[2] = 0 THEN 2
                    ELSE IF f[4] = 0 THEN 4 ELSE 8
  BY DEF Length
<1>2. val \in 0..255 => f[1] = 0
  <2> SUFFICES ASSUME val \in 0..255 PROVE f[1] = 0  OBVIOUS
  <2>1. f = Cbor!Shifted(val)  BY Zenon DEF Shifted, Cbor!Shifted
  <2>2. Shifts(f, val)  BY <2>1, CborShifts
  <2> HIDE DEF f
  <2>3. f[0] = val /\ f[1] = f[1 - 1] \div 256  BY <2>2 DEF Shifts
  <2> QED BY <2>3
<1> HIDE DEF f
<1> QED BY <1>1, <1>2

(* The length of a concatenation.                                          *)
LEMMA ConcatLen ==
  ASSUME NEW s, NEW t, NEW m, NEW n, HasLen(s, m), HasLen(t, n)
  PROVE  HasLen(s \o t, m + n)
<1>1. PICK S : s \in Seq(S)
  BY DEF HasLen, IsSeq
<1>2. PICK T : t \in Seq(T)
  BY DEF HasLen, IsSeq
<1> DEFINE U == S \cup T
<1>3. s \in Seq(U) /\ t \in Seq(U)
  <2>1. S \subseteq U /\ T \subseteq U
    OBVIOUS
  <2> HIDE DEF U
  <2> QED BY <1>1, <1>2, <2>1
<1> HIDE DEF U
<1>4. s \o t \in Seq(U) /\ Len(s \o t) = Len(s) + Len(t)
  BY <1>3, ConcatProperties
<1> QED BY <1>4 DEF HasLen, IsSeq

(* A byte alone.                                                           *)
LEMMA SingleLen == ASSUME NEW x PROVE HasLen(<<x>>, 1)
<1>1. <<x>> \in Seq({x}) /\ Len(<<x>>) = 1
  OBVIOUS
<1> QED BY <1>1 DEF HasLen, IsSeq

(* An item is its first byte and as many as its value takes.               *)
LEMMA EncodeLen ==
  ASSUME NEW tag, NEW val PROVE HasLen(Encode(tag, val), 1 + Length(val))
<1> DEFINE byte(k) == Shifted(val)[Length(val) - k] % 256
           bytes == [k \in 1..Length(val) |-> byte(k)]
<1>1. Length(val) \in Nat
  BY LengthAtMost
<1>2. HasLen(bytes, Length(val))
  <2> DEFINE S == {byte(k) : k \in 1..Length(val)}
  <2>1. bytes \in [1..Length(val) -> S]
    <3> HIDE DEF byte
    <3> QED OBVIOUS
  <2> HIDE DEF bytes, S
  <2>2. bytes \in Seq(S) /\ Len(bytes) = Length(val)
    BY <1>1, <2>1
  <2> QED BY <1>1, <2>2 DEF HasLen, IsSeq
<1>3. HasLen(<<32 * tag + Additional(val)>>, 1)
  BY SingleLen
<1>4. Encode(tag, val) = <<32 * tag + Additional(val)>> \o bytes
  BY Zenon DEF Encode
<1> HIDE DEF bytes
<1> QED BY <1>2, <1>3, <1>4, ConcatLen

(* s is a sequence of at most n elements.                                  *)
AtMost(s, n) == n \in Nat /\ \E m \in 0..n : HasLen(s, m)

(* Bounds of lengths add up.                                               *)
LEMMA ConcatAtMost ==
  ASSUME NEW s, NEW t, NEW m, NEW n, AtMost(s, m), AtMost(t, n)
  PROVE  AtMost(s \o t, m + n)
<1>1. PICK k \in 0..m : HasLen(s, k)
  BY DEF AtMost
<1>2. PICK l \in 0..n : HasLen(t, l)
  BY DEF AtMost
<1>3. m \in Nat /\ n \in Nat
  BY DEF AtMost
<1>4. HasLen(s \o t, k + l)
  BY <1>1, <1>2, ConcatLen
<1>5. k + l \in 0..(m + n) /\ m + n \in Nat
  BY <1>1, <1>2, <1>3
<1> QED BY <1>4, <1>5 DEF AtMost

(* A bound may be widened.                                                 *)
LEMMA AtMostMore ==
  ASSUME NEW s, NEW m, NEW n \in Nat, AtMost(s, m), m <= n
  PROVE  AtMost(s, n)
BY DEF AtMost

(* An item without content has nine bytes at most.                         *)
LEMMA EncodeAtMost == ASSUME NEW tag, NEW val PROVE AtMost(Encode(tag, val), 9)
<1>1. HasLen(Encode(tag, val), 1 + Length(val))
  BY EncodeLen
<1>2. 1 + Length(val) \in 0..9
  BY LengthAtMost
<1> QED BY <1>1, <1>2 DEF AtMost

(* A value below 24 is in the first byte.                                  *)
LEMMA SmallAtMost == ASSUME NEW tag, NEW val \in 0..23 PROVE AtMost(Encode(tag, val), 1)
<1>1. HasLen(Encode(tag, val), 1 + Length(val))
  BY EncodeLen
<1>2. 1 + Length(val) \in 0..1
  BY LengthAtMost
<1> QED BY <1>1, <1>2 DEF AtMost

(* A value below 256 takes one byte more.                                  *)
LEMMA ByteAtMost == ASSUME NEW tag, NEW val \in 0..255 PROVE AtMost(Encode(tag, val), 2)
<1>1. HasLen(Encode(tag, val), 1 + Length(val))
  BY EncodeLen
<1>2. 1 + Length(val) \in 0..2
  BY LengthAtMost
<1> QED BY <1>1, <1>2 DEF AtMost

(* EncodeEID's result fits its eight bits.                                 *)
Known ==
  {e \in EndpointIds : /\ e.uri = dtn => Len(e.ssp) <= LongestName
                       /\ e.uri = ipn => IsWord(e.ssp[1]) /\ IsWord(e.ssp[2])}

(* A length is a bound.                                                    *)
LEMMA LenAtMost ==
  ASSUME NEW s, NEW n \in Nat, NEW m \in 0..n, HasLen(s, m) PROVE AtMost(s, n)
BY DEF AtMost

(* A name that LongestName allows, with its length before it.              *)
LEMMA NameAtMost ==
  ASSUME NEW name \in Names, Len(name) <= LongestName
  PROVE  AtMost(EncodeBytes(name), 253)
<1> DEFINE S == 1..255
           len == Len(name)
<1>0. name \in Seq(S)
  BY DEF Names
<1> HIDE DEF S
<1>1. len \in 0..251
  <2>1. len \in Nat
    BY <1>0
  <2>2. len <= 251
    BY DEF LongestName
  <2> HIDE DEF len
  <2> QED BY <2>1, <2>2
<1>2. HasLen(name, len)
  BY <1>0, <1>1 DEF HasLen, IsSeq
<1> HIDE DEF len
<1>3. AtMost(name, 251)
  BY <1>1, <1>2, LenAtMost
<1>4. AtMost(Encode(byteString, len), 2)
  <2>1. len \in 0..255
    BY <1>1
  <2> QED BY <2>1, ByteAtMost
<1>5. AtMost(Encode(byteString, len) \o name, 2 + 251)
  BY <1>3, <1>4, ConcatAtMost
<1> QED BY <1>5 DEF EncodeBytes, len

(* The two numbers of an ipn endpoint id.                                  *)
LEMMA PairAtMost ==
  ASSUME NEW first, NEW second
  PROVE  AtMost(EncodeArraySize(2) \o EncodeUnsigned(first) \o EncodeUnsigned(second), 253)
<1>1. /\ AtMost(EncodeArraySize(2), 9) /\ AtMost(EncodeUnsigned(first), 9)
      /\ AtMost(EncodeUnsigned(second), 9)
  BY EncodeAtMost DEF EncodeArraySize, EncodeUnsigned
<1>2. AtMost(EncodeArraySize(2) \o EncodeUnsigned(first), 9 + 9)
  BY <1>1, ConcatAtMost
<1>3. AtMost((EncodeArraySize(2) \o EncodeUnsigned(first)) \o EncodeUnsigned(second), 9 + 9 + 9)
  BY <1>1, <1>2, ConcatAtMost
<1> QED BY <1>3, AtMostMore

(* What EncodeEID returns fits into the eight bits it is counted in.       *)
LEMMA EidFits == ASSUME NEW e \in Known PROVE AtMost(EncodeEid(e), 255)
<1> DEFINE size == EncodeArraySize(2)
           uri == EncodeUnsigned(e.uri)
           none == EncodeUnsigned(0)
           name == EncodeBytes(e.ssp)
           pair == EncodeArraySize(2) \o EncodeUnsigned(e.ssp[1]) \o EncodeUnsigned(e.ssp[2])
           ssp == IF e.uri = ipn THEN pair ELSE IF e.ssp = None THEN none ELSE name
<1>1. AtMost(size, 1)
  BY SmallAtMost DEF EncodeArraySize
<1>2. AtMost(uri, 1)
  <2>1. e.uri \in 0..23
    BY DEF Known, EndpointIds, dtn, ipn
  <2> QED BY <2>1, SmallAtMost DEF EncodeUnsigned
<1>3. AtMost(none, 253)
  <2>1. AtMost(none, 1)
    BY SmallAtMost DEF EncodeUnsigned
  <2> HIDE DEF none
  <2> QED BY <2>1, AtMostMore
<1>4. AtMost(pair, 253)
  BY PairAtMost
<1>5. ASSUME e.uri # ipn PROVE AtMost(name, 253)
  <2>1. e.ssp \in Names /\ Len(e.ssp) <= LongestName
    BY <1>5 DEF Known, EndpointIds, dtn, ipn
  <2> QED BY <2>1, NameAtMost
<1>6. EncodeEid(e) = (size \o uri) \o ssp
  BY Zenon DEF EncodeEid
<1> HIDE DEF size, uri, none, name, pair
<1>7. AtMost(ssp, 253)
  BY <1>3, <1>4, <1>5
<1> HIDE DEF ssp
<1>8. AtMost(size \o uri, 1 + 1)
  BY <1>1, <1>2, ConcatAtMost
<1>9. AtMost((size \o uri) \o ssp, 1 + 1 + 253)
  BY <1>7, <1>8, ConcatAtMost
<1> QED BY <1>6, <1>9

(* A sequence of something has the length that Len tells.                  *)
LEMMA AtMostHasLen ==
  ASSUME NEW s, NEW n, AtMost(s, n) PROVE HasLen(s, Len(s)) /\ Len(s) \in 0..n
BY DEF AtMost, HasLen

----------------------------------------------------------------------------
(* What the bundle is throughout: a record whose endpoint ids EncodeEID    *)
(* can count.                                                              *)
Words == {n \in Nat : IsWord(n)}
BundleType ==
  [flags : SUBSET (0..18), eid : [Roles -> Known], number : [Numbers -> Words],
   lifetime : Words, blockFlags : SUBSET (0..7), blockLength : Words, adu : Seq(0..255)]

BundleTypeOK == bundle \in BundleType

(* The bundle that the constructor makes has its type.                     *)
LEMMA BundleInit == Init => bundle \in BundleType
<1> SUFFICES ASSUME NEW adu \in Adus, NEW g \in Garbage,
                    bundle = [flags |-> {}, eid |-> [r \in Roles |-> defaultEid],
                              number |-> [n \in Numbers |-> 0], lifetime |-> 0,
                              blockFlags |-> {}, blockLength |-> g, adu |-> adu]
             PROVE  bundle \in BundleType
  BY DEF Init
<1> DEFINE Payloads == Seq(0..255)
<1>1. adu \in Payloads /\ g \in Words
  BY Bundle7Assumption DEF IsWord, Words
<1>4. 0 \in Words
  BY SmallIsWord DEF Words, IsWord
<1>2. defaultEid \in Known
  <2>1. None \in Seq(1..255) /\ Len(None) = 4
    BY DEF None
  <2>2. None \in Names /\ Len(None) <= LongestName
    BY <2>1 DEF Names, LongestName
  <2> QED BY <2>2 DEF Known, EndpointIds, defaultEid, dtn, ipn
<1> HIDE DEF Payloads
<1>3. bundle \in [flags : SUBSET (0..18), eid : [Roles -> Known], number : [Numbers -> Words],
                  lifetime : Words, blockFlags : SUBSET (0..7), blockLength : Words,
                  adu : Payloads]
  BY <1>1, <1>2, <1>4
<1> QED BY <1>3 DEF BundleType, Payloads

(* Each setter keeps the type.                                             *)
LEMMA BundleNext == bundle \in BundleType /\ [Next]_vars => bundle' \in BundleType
<1> SUFFICES ASSUME bundle \in BundleType, [Next]_vars
             PROVE  bundle' \in BundleType
  OBVIOUS
<1> DEFINE Payloads == Seq(0..255)
           Ids == [Roles -> Known]
           Type == [flags : SUBSET (0..18), eid : Ids, number : [Numbers -> Words],
                    lifetime : Words, blockFlags : SUBSET (0..7), blockLength : Words,
                    adu : Payloads]
<1>0. BundleType = Type
  BY DEF BundleType
<1> HIDE DEF Payloads
<1>1. CASE UNCHANGED vars
  BY <1>1 DEF vars
<1>2. ASSUME NEW b \in Flags, NEW value \in BOOLEAN, SetFlag(b, value)
      PROVE  bundle' \in Type
  <2>1. b \in 0..18
    BY Bundle7Assumption
  <2> QED BY <1>0, <1>2, <2>1 DEF SetFlag
<1>3. ASSUME NEW b \in BlockFlags, NEW value \in BOOLEAN, SetBlockFlag(b, value)
      PROVE  bundle' \in Type
  <2>1. b \in 0..7
    BY Bundle7Assumption
  <2> QED BY <1>0, <1>3, <2>1 DEF SetBlockFlag
<1>4. ASSUME NEW role \in Roles, NEW eid \in Eids, SetEid(role, eid)
      PROVE  bundle' \in Type
  <2>1. eid \in Known
    BY Bundle7Assumption DEF Known
  <2>2. [bundle.eid EXCEPT ![role] = eid] \in Ids
    BY <1>0, <2>1
  <2> HIDE DEF Ids
  <2> QED BY <1>0, <1>4, <2>2 DEF SetEid
<1>5. ASSUME NEW n \in Numbers, NEW value \in Values, SetNumber(n, value)
      PROVE  bundle' \in Type
  <2>1. value \in Words
    BY Bundle7Assumption DEF Words, IsWord
  <2> HIDE DEF Ids
  <2> QED BY <1>0, <1>5, <2>1 DEF SetNumber
<1>6. ASSUME NEW lifetime \in Lifetimes, SetLifeTime(lifetime)
      PROVE  bundle' \in Type
  <2>1. lifetime \in Words
    BY Bundle7Assumption DEF Words, IsWord
  <2> HIDE DEF Ids
  <2> QED BY <1>0, <1>6, <2>1 DEF SetLifeTime
<1>7. ASSUME NEW len \in Values, SetBlockLength(len)
      PROVE  bundle' \in Type
  <2>1. len \in Words
    BY Bundle7Assumption DEF Words, IsWord
  <2> HIDE DEF Ids
  <2> QED BY <1>0, <1>7, <2>1 DEF SetBlockLength
<1> QED BY <1>0, <1>1, <1>2, <1>3, <1>4, <1>5, <1>6, <1>7 DEF Next

(* Every part of the primary header is a sequence, and the three endpoint  *)
(* ids are short enough to be counted.                                     *)
LEMMA ConcatAny == ASSUME NEW s, NEW t, IsSeq(s), IsSeq(t) PROVE IsSeq(s \o t)
<1>1. PICK S : s \in Seq(S)
  BY DEF IsSeq
<1>2. PICK T : t \in Seq(T)
  BY DEF IsSeq
<1>3. HasLen(s, Len(s)) /\ HasLen(t, Len(t))
  BY <1>1, <1>2 DEF HasLen, IsSeq
<1>4. HasLen(s \o t, Len(s) + Len(t))
  BY <1>3, ConcatLen
<1> QED BY <1>4 DEF HasLen

(* The parts of the primary header are sequences.                          *)
LEMMA UnsignedAny == ASSUME NEW val PROVE IsSeq(EncodeUnsigned(val))
BY EncodeLen DEF EncodeUnsigned, HasLen

(* So is an array's size,                                                  *)
LEMMA ArrayAny == ASSUME NEW val PROVE IsSeq(EncodeArraySize(val))
BY EncodeLen DEF EncodeArraySize, HasLen

(* what stands before the endpoint ids,                                    *)
LEMMA BeforeAny == ASSUME NEW b PROVE IsSeq(BeforeEids(b))
BY UnsignedAny, ArrayAny, ConcatAny DEF BeforeEids

(* the fields of a fragment,                                               *)
LEMMA FragmentAny == ASSUME NEW b PROVE IsSeq(FragmentFields(b))
<1>1. IsSeq(<<>>)
  <2>1. <<>> \in Seq({})
    OBVIOUS
  <2> QED BY <2>1 DEF IsSeq
<1> QED BY <1>1, UnsignedAny, ConcatAny DEF FragmentFields

(* and what stands behind the endpoint ids.                                *)
LEMMA BehindAny == ASSUME NEW b PROVE IsSeq(BehindEids(b))
BY UnsignedAny, ArrayAny, FragmentAny, ConcatAny DEF BehindEids

(* A byte is not changed by being cut to one.                              *)
LEMMA ModuloByte == ASSUME NEW n \in 0..255 PROVE n % 256 = n
OBVIOUS

(* EncodeEID returns the number of bytes that it writes.                   *)
LEMMA EidCounted ==
  ASSUME NEW e \in Known PROVE HasLen(EncodeEid(e), EidSize(e))
<1>1. PICK m \in 0..255 : HasLen(EncodeEid(e), m)
  BY EidFits DEF AtMost
<1>2. m % 256 = m
  BY ModuloByte
<1>3. Len(EncodeEid(e)) = m
  BY <1>1 DEF HasLen
<1> QED BY <1>1, <1>2, <1>3 DEF EidSize

(* The size of the primary header is the number of its bytes.              *)
LEMMA SizeCounts ==
  ASSUME NEW b, b.eid["dst"] \in Known, b.eid["src"] \in Known, b.eid["report"] \in Known
  PROVE  SizeOfPrimary(b) = Len(SerializePrimary(b))
<1> DEFINE before == BeforeEids(b)
           dst == EncodeEid(b.eid["dst"])
           src == EncodeEid(b.eid["src"])
           report == EncodeEid(b.eid["report"])
           behind == BehindEids(b)
           d == EidSize(b.eid["dst"])
           s == EidSize(b.eid["src"])
           r == EidSize(b.eid["report"])
<1>1. HasLen(dst, d) /\ HasLen(src, s) /\ HasLen(report, r)
  BY EidCounted
<1>2. HasLen(before, Len(before)) /\ HasLen(behind, Len(behind))
  <2>1. IsSeq(before) /\ IsSeq(behind)
    BY BeforeAny, BehindAny
  <2> HIDE DEF before, behind
  <2>2. Len(before) \in Nat /\ Len(behind) \in Nat
    BY <2>1 DEF IsSeq
  <2> QED BY <2>1, <2>2 DEF HasLen
<1>3. SerializePrimary(b) = (((before \o dst) \o src) \o report) \o behind
  BY Zenon DEF SerializePrimary
<1>4. SizeOfPrimary(b) = Len(before) + d + s + r + Len(behind)
  BY Zenon DEF SizeOfPrimary
<1> HIDE DEF before, dst, src, report, behind, d, s, r
<1>5. HasLen(before \o dst, Len(before) + d)
  BY <1>1, <1>2, ConcatLen
<1>6. HasLen((before \o dst) \o src, Len(before) + d + s)
  BY <1>1, <1>5, ConcatLen
<1>7. HasLen(((before \o dst) \o src) \o report, Len(before) + d + s + r)
  BY <1>1, <1>6, ConcatLen
<1>8. HasLen((((before \o dst) \o src) \o report) \o behind,
             Len(before) + d + s + r + Len(behind))
  BY <1>2, <1>7, ConcatLen
<1> QED BY <1>3, <1>4, <1>8 DEF HasLen

(* The bundle is well typed after every sequence of the sender's calls.    *)
THEOREM BundleTyped == Spec => []BundleTypeOK
<1>1. Init => BundleTypeOK
  BY BundleInit DEF BundleTypeOK
<1>2. BundleTypeOK /\ [Next]_vars => BundleTypeOK'
  BY BundleNext DEF BundleTypeOK
<1> QED BY <1>1, <1>2, PTL DEF Spec

(* The size by which SerializeBundle lays out the packet (EncodeEID counts *)
(* in eight bits) is the number of bytes that the primary header writes,   *)
(* whatever numbers and names of up to LongestName characters are set.     *)
THEOREM SizeExact == Spec => []SizeIsExact
<1>1. BundleTypeOK => SizeIsExact
  <2> SUFFICES ASSUME BundleTypeOK
               PROVE  SizeOfPrimary(bundle) = Len(SerializePrimary(bundle))
    BY DEF SizeIsExact
  <2>1. bundle.eid \in [Roles -> Known]
    BY DEF BundleTypeOK, BundleType
  <2>2. bundle.eid["dst"] \in Known /\ bundle.eid["src"] \in Known /\ bundle.eid["report"] \in Known
    BY <2>1 DEF Roles
  <2> QED BY <2>2, SizeCounts
<1> QED BY <1>1, BundleTyped, PTL

----------------------------------------------------------------------------
(* What is written is read.                                                *)
(* So are the other definitions of Cbor.                                   *)
LEMMA SameCbor ==
  /\ \A val : Fits(val) <=> Cbor!Fits(val)
  /\ \A tag, val : Encode(tag, val) = Cbor!Encode(tag, val)
  /\ \A b, i : Item(b, i) = Cbor!Item(b, i)
<1>1. \A val : Length(val) = Cbor!Length(val)
  BY SameShifted, Zenon DEF Length, Cbor!Length
<1>2. \A val : Additional(val) = Cbor!Additional(val)
  BY <1>1, Zenon DEF Additional, Cbor!Additional
<1>3. ASSUME NEW val PROVE Fits(val) <=> Cbor!Fits(val)
  BY SameShifted, Zenon DEF Fits, Cbor!Fits
<1>4. ASSUME NEW tag, NEW val PROVE Encode(tag, val) = Cbor!Encode(tag, val)
  BY SameShifted, <1>1, <1>2, Zenon DEF Encode, Cbor!Encode
<1>5. ASSUME NEW b, NEW i PROVE Item(b, i) = Cbor!Item(b, i)
  BY Zenon DEF Item, Cbor!Item, Following, Cbor!Following
<1> QED BY <1>3, <1>4, <1>5

(* An item is read as it was written.                                      *)
LEMMA ItemRead ==
  ASSUME NEW b \in Octets, NEW i, NEW tag \in 0..7, NEW val, Fits(val),
         HasAt(b, i, Encode(tag, val))
  PROVE  /\ Decode(tag, Item(b, i)) = val /\ Item(b, i).value = val
         /\ Item(b, i).next = i + Len(Encode(tag, val))
<1>1. Cbor!Fits(val) /\ HasAt(b, i, Cbor!Encode(tag, val))
  BY SameCbor
<1>2. /\ Cbor!Item(b, i).tag = tag /\ Cbor!Item(b, i).value = val
      /\ Cbor!Item(b, i).next = i + Len(Cbor!Encode(tag, val))
  BY <1>1, CborDecodes
<1>3. Item(b, i) = Cbor!Item(b, i) /\ Encode(tag, val) = Cbor!Encode(tag, val)
  BY SameCbor
<1> QED BY <1>2, <1>3 DEF Decode

(* It is written in bytes.                                                 *)
LEMMA ItemBytes ==
  ASSUME NEW tag \in 0..7, NEW val, Fits(val)
  PROVE  Encode(tag, val) \in Octets /\ Len(Encode(tag, val)) \in Nat
<1>1. Cbor!Fits(val) /\ Encode(tag, val) = Cbor!Encode(tag, val)  BY SameCbor
<1> QED BY <1>1, CborBytes

(* Nth goes from the end of each item to the beginning of the next.        *)
IsNth(at, b, i, k) == at = [j \in 1..k |-> IF j = 1 THEN i ELSE Item(b, at[j - 1]).next]
Steps(at, b, i, k) == \A j \in 1..k : at[j] = IF j = 1 THEN i ELSE Item(b, at[j - 1]).next

(* There is such a function, and Nth returns its last value.               *)
LEMMA NthSteps ==
  ASSUME NEW b, NEW i, NEW k \in Nat \ {0}
  PROVE  \E at : Steps(at, b, i, k) /\ Nth(b, i, k) = at[k]
<1> DEFINE T == {m \in 0..k : \E at : IsNth(at, b, i, m)}
           behind(x) == Item(b, x).next
<1>1. 0 \in T
  <2>1. IsNth([j \in 1..0 |-> i], b, i, 0)  BY DEF IsNth
  <2> QED BY <2>1
<1>2. ASSUME NEW m \in 1..k, m - 1 \in T PROVE m \in T
  <2>1. PICK at : IsNth(at, b, i, m - 1)  BY <1>2
  <2> DEFINE new == [j \in 1..m |-> IF j = 1 THEN i ELSE behind(at[j - 1])]
  <2>2. \A j \in 1..(m - 1) : at[j] = IF j = 1 THEN i ELSE behind(at[j - 1])
    BY <2>1, Zenon DEF IsNth
  <2>3. \A j \in 1..m : new[j] = IF j = 1 THEN i ELSE behind(at[j - 1])  OBVIOUS
  <2>4. new = [j \in 1..m |-> new[j]]  OBVIOUS
  <2> HIDE DEF new, behind
  <2>5. \A j \in 1..(m - 1) : new[j] = at[j]
    <3>1. \A j \in 1..(m - 1) : j \in 1..m  OBVIOUS
    <3> QED BY <2>2, <2>3, <3>1, Zenon
  <2>6. ASSUME NEW j \in 1..m PROVE new[j] = IF j = 1 THEN i ELSE behind(new[j - 1])
    <3>1. CASE j = 1  BY <2>3, <3>1
    <3>2. CASE j # 1
      <4>1. j - 1 \in 1..(m - 1)  BY <3>2
      <4> QED BY <2>3, <2>5, <3>2, <4>1
    <3> QED BY <3>1, <3>2
  <2>7. IsNth(new, b, i, m)  BY <2>4, <2>6, Zenon DEF IsNth, behind
  <2>8. m \in 0..k  OBVIOUS
  <2> QED BY <2>7, <2>8
<1>3. k \in T
  <2> HIDE DEF T
  <2>1. \A m \in 0..k : m \in T  BY <1>1, <1>2, UpTo
  <2>2. k \in 0..k  OBVIOUS
  <2> QED BY <2>1, <2>2
<1> DEFINE at == CHOOSE f : IsNth(f, b, i, k)
<1>4. IsNth(at, b, i, k)  BY <1>3, Zenon
<1>5. Nth(b, i, k) = at[k]  BY Zenon DEF Nth, IsNth
<1> HIDE DEF at
<1>6. Steps(at, b, i, k)  BY <1>4, Zenon DEF IsNth, Steps
<1> QED BY <1>5, <1>6

(* The first item is where the items begin, the next one behind the last.  *)
LEMMA NthNext ==
  ASSUME NEW b, NEW i, NEW k \in Nat \ {0}
  PROVE  Nth(b, i, 1) = i /\ Nth(b, i, k + 1) = Item(b, Nth(b, i, k)).next
<1>1. PICK one : Steps(one, b, i, 1) /\ Nth(b, i, 1) = one[1]  BY NthSteps
<1>2. Nth(b, i, 1) = i
  <2>1. 1 \in 1..1  OBVIOUS
  <2> QED BY <1>1, <2>1 DEF Steps
<1>3. PICK f : Steps(f, b, i, k) /\ Nth(b, i, k) = f[k]  BY NthSteps
<1>4. k + 1 \in Nat \ {0}  OBVIOUS
<1>5. PICK g : Steps(g, b, i, k + 1) /\ Nth(b, i, k + 1) = g[k + 1]  BY <1>4, NthSteps
<1> DEFINE n == k - 1
           T == {m \in 0..n : f[m + 1] = g[m + 1]}
           behind(x) == Item(b, x).next
<1>6. \A j \in 1..k : f[j] = IF j = 1 THEN i ELSE behind(f[j - 1])  BY <1>3 DEF Steps
<1>7. \A j \in 1..(k + 1) : g[j] = IF j = 1 THEN i ELSE behind(g[j - 1])  BY <1>5 DEF Steps
<1> HIDE DEF behind
<1>8. 0 \in T
  <2>1. 1 \in 1..k /\ 1 \in 1..(k + 1) /\ 0 + 1 = 1 /\ 0 \in 0..n  OBVIOUS
  <2> QED BY <1>6, <1>7, <2>1
<1>9. ASSUME NEW m \in 1..n, m - 1 \in T PROVE m \in T
  <2>1. /\ m + 1 \in 1..k /\ m + 1 \in 1..(k + 1) /\ m + 1 # 1 /\ (m + 1) - 1 = m
        /\ (m - 1) + 1 = m /\ m \in 0..n
    OBVIOUS
  <2>2. f[m] = g[m]  BY <1>9, <2>1
  <2> QED BY <1>6, <1>7, <2>1, <2>2
<1>10. n \in Nat /\ n \in 0..n /\ n + 1 = k  OBVIOUS
<1>11. n \in T
  <2> HIDE DEF T, n
  <2>1. \A m \in 0..n : m \in T  BY <1>8, <1>9, <1>10, UpTo
  <2> QED BY <1>10, <2>1
<1>12. f[k] = g[k]  BY <1>10, <1>11
<1>13. g[k + 1] = behind(g[k])
  <2>1. k + 1 \in 1..(k + 1) /\ k + 1 # 1 /\ (k + 1) - 1 = k  OBVIOUS
  <2> QED BY <1>7, <2>1
<1> QED BY <1>2, <1>3, <1>5, <1>12, <1>13 DEF behind

(* The first k - 1 of the items at i are these bytes.                      *)
Passed(b, i, k, bytes) == bytes \in Octets /\ Nth(b, i, k) = i + Len(bytes)

(* The first item is read, and passed.                                     *)
LEMMA FirstPassed ==
  ASSUME NEW b \in Octets, NEW i, NEW tag \in 0..7, NEW val, Fits(val),
         HasAt(b, i, Encode(tag, val))
  PROVE  Decode(tag, Item(b, Nth(b, i, 1))) = val /\ Passed(b, i, 2, Encode(tag, val))
<1>1. Nth(b, i, 1) = i /\ Nth(b, i, 1 + 1) = Item(b, Nth(b, i, 1)).next
  <2>1. 1 \in Nat \ {0}  OBVIOUS
  <2> QED BY <2>1, NthNext
<1>2. 1 + 1 = 2  OBVIOUS
<1>3. Nth(b, i, 2) = Item(b, i).next  BY <1>1, <1>2
<1> QED BY <1>1, <1>3, ItemRead, ItemBytes DEF Passed

(* Behind the items passed, one more is read and passed.                   *)
LEMMA NextPassed ==
  ASSUME NEW b \in Octets, NEW i \in Nat, NEW k \in Nat \ {0}, NEW bytes,
         Passed(b, i, k, bytes), NEW tag \in 0..7, NEW val, Fits(val),
         HasAt(b, i, bytes \o Encode(tag, val))
  PROVE  /\ Decode(tag, Item(b, Nth(b, i, k))) = val
         /\ Passed(b, i, k + 1, bytes \o Encode(tag, val))
<1> DEFINE e == Encode(tag, val)
           j == i + Len(bytes)
<1>1. e \in Octets /\ bytes \in Octets /\ Nth(b, i, k) = j  BY ItemBytes DEF Passed
<1>2. HasAt(b, j, e)  BY <1>1, HasAtParts
<1>3. Decode(tag, Item(b, j)) = val /\ Item(b, j).next = j + Len(e)  BY <1>2, ItemRead
<1>4. bytes \o e \in Octets /\ Len(bytes \o e) = Len(bytes) + Len(e)
      /\ Len(bytes) \in Nat /\ Len(e) \in Nat
  BY <1>1, OctetsConcat
<1>5. Nth(b, i, k + 1) = j + Len(e)  BY <1>1, <1>3, NthNext
<1> HIDE DEF e
<1>6. j + Len(e) = i + Len(bytes \o e)  BY <1>4
<1> QED BY <1>1, <1>3, <1>4, <1>5, <1>6 DEF Passed, e

(* Numbers that are written whatever is set.                               *)
LEMMA SmallFits == ASSUME NEW n \in 0..255 PROVE Fits(n)
<1>1. n \in Nat /\ n < 256 * 256 * 256  OBVIOUS
<1> QED BY <1>1, SmallIsWord, WordFits

(* The parts of an endpoint id that is known.                              *)
LEMMA EidParts ==
  ASSUME NEW e \in Known
  PROVE  /\ e.uri \in {dtn, ipn} /\ Fits(e.uri)
         /\ e.uri = ipn => /\ Fits(e.ssp[1]) /\ Fits(e.ssp[2])
                           /\ e = [uri |-> ipn, ssp |-> <<e.ssp[1], e.ssp[2]>>]
                           /\ Decodable(e) = e
         /\ e.uri # ipn => /\ e.ssp \in Octets /\ Fits(Len(e.ssp)) /\ Len(e.ssp) \in 0..255
                           /\ e = [uri |-> dtn, ssp |-> e.ssp]
<1>1. e.uri \in {dtn, ipn}  BY DEF Known, EndpointIds
<1>2. Fits(e.uri)
  <2>1. e.uri \in 0..255  BY <1>1 DEF dtn, ipn
  <2> QED BY <2>1, SmallFits
<1>3. ASSUME e.uri = ipn
      PROVE  /\ Fits(e.ssp[1]) /\ Fits(e.ssp[2])
             /\ e = [uri |-> ipn, ssp |-> <<e.ssp[1], e.ssp[2]>>]
             /\ Decodable(e) = e
  <2>1. Fits(e.ssp[1]) /\ Fits(e.ssp[2])  BY <1>3, WordFits DEF Known
  <2>2. e \in [uri : {ipn}, ssp : Nat \X Nat]
    BY <1>3 DEF Known, EndpointIds, dtn, ipn
  <2>3. e = [uri |-> ipn, ssp |-> e.ssp] /\ e.ssp = <<e.ssp[1], e.ssp[2]>>  BY <2>2
  <2>4. e.ssp # None
    <3>1. Len(e.ssp) = 2  BY <2>2
    <3>2. Len(None) = 4  BY DEF None
    <3> QED BY <3>1, <3>2
  <2> QED BY <2>1, <2>3, <2>4 DEF Decodable
<1>4. ASSUME e.uri # ipn
      PROVE  /\ e.ssp \in Octets /\ Fits(Len(e.ssp)) /\ Len(e.ssp) \in 0..255
             /\ e = [uri |-> dtn, ssp |-> e.ssp]
  <2>1. e \in [uri : {dtn}, ssp : Names] /\ Len(e.ssp) <= LongestName
    <3> HIDE DEF Names
    <3> QED BY <1>4 DEF Known, EndpointIds, dtn, ipn
  <2>2. e.ssp \in Names /\ e = [uri |-> dtn, ssp |-> e.ssp]  BY <2>1
  <2>3. Names \subseteq Octets
    <3>1. 1..255 \subseteq Octet  BY DEF Octet
    <3> QED BY <3>1, SeqMonotonic DEF Names, Octets
  <2>4. e.ssp \in Octets  BY <2>2, <2>3
  <2>5. Len(e.ssp) \in Nat  BY <2>4, OctetsAre
  <2>6. Len(e.ssp) \in 0..255
    <3> DEFINE len == Len(e.ssp)
    <3>1. len \in Nat /\ len <= LongestName  BY <2>1, <2>5
    <3> HIDE DEF len
    <3>2. len \in 0..255  BY <3>1 DEF LongestName
    <3> QED BY <3>2 DEF len
  <2> QED BY <2>2, <2>4, <2>6, SmallFits
<1> QED BY <1>1, <1>2, <1>3, <1>4

(* The first byte tells a name from the number 0.                          *)
LEMMA FirstByteOf ==
  ASSUME NEW b \in Octets, NEW i, NEW val, Fits(val)
  PROVE  /\ HasAt(b, i, Encode(unsignedInteger, 0)) => b[i] = 0
         /\ HasAt(b, i, Encode(byteString, val)) => b[i] # 0
<1>1. ASSUME NEW tag \in 0..7, NEW v, Fits(v), HasAt(b, i, Encode(tag, v))
      PROVE  \E n, more : FirstByte(v, n, more) /\ n = Length(v) /\ b[i] = 32 * tag + more
  <2> DEFINE s == Cbor!Encode(tag, v)
             n == Cbor!Length(v)
             more == Cbor!Additional(v)
  <2>1. Cbor!Fits(v) /\ HasAt(b, i, s)  BY <1>1, SameCbor
  <2>2. IsItem(s, tag, v, n, more, Cbor!Shifted(v))  BY <2>1, CborItem
  <2>3. v \in Nat  BY <2>1 DEF Cbor!Fits
  <2>4. FirstByte(v, n, more)  BY <2>3, CborLength
  <2>5. n = Length(v)  BY SameShifted, Zenon DEF Length, Cbor!Length
  <2> HIDE DEF s, n, more
  <2>6. Len(s) = n + 1 /\ s[1] = 32 * tag + more /\ n \in Nat  BY <2>2, <2>4 DEF IsItem, FirstByte
  <2>7. i \in Nat /\ \A k \in 1..Len(s) : b[i + k - 1] = s[k]  BY <2>1 DEF HasAt
  <2>8. 1 \in 1..Len(s) /\ i + 1 - 1 = i  BY <2>6, <2>7
  <2>9. b[i] = s[1]  BY <2>7, <2>8
  <2> QED BY <2>4, <2>5, <2>6, <2>9
<1>2. ASSUME HasAt(b, i, Encode(unsignedInteger, 0)) PROVE b[i] = 0
  <2>1. Fits(0)  BY SmallFits
  <2>2. 0 \in 0..7 /\ unsignedInteger = 0  BY DEF unsignedInteger
  <2>3. PICK n, more : FirstByte(0, n, more) /\ n = Length(0) /\ b[i] = 32 * 0 + more
    BY <1>1, <1>2, <2>1, <2>2
  <2>4. n = 0  BY <2>3 DEF Length
  <2> QED BY <2>3, <2>4 DEF FirstByte
<1>3. ASSUME HasAt(b, i, Encode(byteString, val)) PROVE b[i] # 0
  <2>1. 2 \in 0..7 /\ byteString = 2  BY DEF byteString
  <2>2. PICK n, more : FirstByte(val, n, more) /\ n = Length(val) /\ b[i] = 32 * 2 + more
    BY <1>1, <1>3, <2>1
  <2>3. more \in 0..27  BY <2>2 DEF FirstByte
  <2> QED BY <2>2, <2>3
<1> QED BY <1>2, <1>3

(* What EncodeEID writes behind the scheme.                                *)
Ssp(e) ==
  IF e.uri = ipn
  THEN (EncodeArraySize(2) \o EncodeUnsigned(e.ssp[1])) \o EncodeUnsigned(e.ssp[2])
  ELSE IF e.ssp = None THEN EncodeUnsigned(0) ELSE Encode(byteString, Len(e.ssp)) \o e.ssp

(* An endpoint id is written in bytes.                                     *)
LEMMA EidBytes ==
  ASSUME NEW e \in Known
  PROVE  /\ EncodeArraySize(2) \in Octets /\ EncodeUnsigned(e.uri) \in Octets /\ Ssp(e) \in Octets
         /\ EncodeEid(e) = (EncodeArraySize(2) \o EncodeUnsigned(e.uri)) \o Ssp(e)
         /\ EncodeEid(e) \in Octets
<1> DEFINE a == EncodeArraySize(2)
           u == EncodeUnsigned(e.uri)
           first == EncodeUnsigned(e.ssp[1])
           second == EncodeUnsigned(e.ssp[2])
           head == Encode(byteString, Len(e.ssp))
           none == EncodeUnsigned(0)
           pair == (a \o first) \o second
           named == head \o e.ssp
           ssp == Ssp(e)
<1>1. EncodeEid(e) = (a \o u) \o ssp  BY Zenon DEF EncodeEid, EncodeBytes, Ssp
<1>2. /\ Fits(e.uri)
      /\ e.uri = ipn => Fits(e.ssp[1]) /\ Fits(e.ssp[2])
      /\ e.uri # ipn => e.ssp \in Octets /\ Fits(Len(e.ssp))
  BY EidParts
<1>3. array \in 0..7 /\ unsignedInteger \in 0..7 /\ byteString \in 0..7
  BY DEF array, unsignedInteger, byteString
<1>4. Fits(2) /\ Fits(0)  BY SmallFits
<1>5. a \in Octets /\ u \in Octets
  BY <1>2, <1>3, <1>4, ItemBytes DEF EncodeArraySize, EncodeUnsigned
<1>6. ASSUME e.uri = ipn PROVE pair \in Octets
  <2>1. first \in Octets /\ second \in Octets
    BY <1>2, <1>3, <1>6, ItemBytes DEF EncodeUnsigned
  <2> HIDE DEF a, first, second
  <2>2. a \o first \in Octets  BY <1>5, <2>1, OctetsConcat
  <2> QED BY <2>1, <2>2, OctetsConcat
<1>7. none \in Octets  BY <1>3, <1>4, ItemBytes DEF EncodeUnsigned
<1>8. ASSUME e.uri # ipn PROVE named \in Octets
  <2>1. head \in Octets  BY <1>2, <1>3, <1>8, ItemBytes
  <2> HIDE DEF head
  <2> QED BY <1>2, <1>8, <2>1, OctetsConcat
<1>9. ssp = IF e.uri = ipn THEN pair ELSE IF e.ssp = None THEN none ELSE named
  BY Zenon DEF Ssp
<1> HIDE DEF ssp, pair, none, named, a, u
<1>10. ssp \in Octets  BY <1>6, <1>7, <1>8, <1>9
<1>11. a \o u \in Octets  BY <1>5, OctetsConcat
<1>12. (a \o u) \o ssp \in Octets  BY <1>10, <1>11, OctetsConcat
<1> QED BY <1>1, <1>5, <1>10, <1>12 DEF a, u, ssp

(* DecodeEID finds the endpoint id that EncodeEID wrote, and its end.      *)
LEMMA EidRead ==
  ASSUME NEW b \in Octets, NEW i \in Nat, NEW e \in Known, HasAt(b, i, EncodeEid(e))
  PROVE  /\ DecodeEid(b, i) = [eid |-> Decodable(e), next |-> i + Len(EncodeEid(e))]
         /\ EncodeEid(e) \in Octets
<1> DEFINE a == EncodeArraySize(2)
           u == EncodeUnsigned(e.uri)
           first == EncodeUnsigned(e.ssp[1])
           second == EncodeUnsigned(e.ssp[2])
           head == Encode(byteString, Len(e.ssp))
           pair == (a \o first) \o second
           ssp == IF e.uri = ipn THEN pair
                  ELSE IF e.ssp = None THEN EncodeUnsigned(0) ELSE head \o e.ssp
           all == EncodeEid(e)
           p == Nth(b, i, 3)
           name == DecodeBytes(b, Item(b, p))
<1>1. all = (a \o u) \o ssp  BY Zenon DEF EncodeEid, EncodeBytes
<1>2. /\ e.uri \in {dtn, ipn} /\ Fits(e.uri)
      /\ e.uri = ipn => /\ Fits(e.ssp[1]) /\ Fits(e.ssp[2])
                        /\ e = [uri |-> ipn, ssp |-> <<e.ssp[1], e.ssp[2]>>]
                        /\ Decodable(e) = e
      /\ e.uri # ipn => /\ e.ssp \in Octets /\ Fits(Len(e.ssp)) /\ Len(e.ssp) \in 0..255
                        /\ e = [uri |-> dtn, ssp |-> e.ssp]
  BY EidParts
<1>3. DecodeEid(b, i) =
        IF UnsignedAt(b, Nth(b, i, 2)) = ipn
        THEN [eid |-> [uri |-> ipn, ssp |-> <<UnsignedAt(b, Nth(b, p, 2)),
                                              UnsignedAt(b, Nth(b, p, 3))>>],
              next |-> Nth(b, p, 4)]
        ELSE IF b[p] = 0
        THEN [eid |-> [uri |-> dtn, ssp |-> Zero], next |-> Nth(b, p, 2)]
        ELSE [eid |-> [uri |-> dtn, ssp |-> name], next |-> Nth(b, p, 2) + Len(name)]
  BY Zenon DEF DecodeEid
<1>4. 2 \in 0..255 /\ array \in 0..7 /\ unsignedInteger \in 0..7 /\ byteString \in 0..7
  BY DEF array, unsignedInteger, byteString
<1>5. Fits(2) /\ Fits(0)  BY SmallFits
<1>6. a \in Octets /\ u \in Octets  BY EidBytes
<1>7. ssp \in Octets
  <2>1. ssp = Ssp(e)  BY Zenon DEF Ssp
  <2> HIDE DEF ssp
  <2> QED BY <2>1, EidBytes
<1> DEFINE front == a \o u
           q == i + Len(front)
<1>8. front \in Octets /\ Len(front) \in Nat  BY <1>6, OctetsConcat
<1> HIDE DEF front
<1>9. all = front \o ssp /\ all \in Octets /\ Len(all) = Len(front) + Len(ssp)
      /\ Len(ssp) \in Nat
  <2> HIDE DEF ssp
  <2>1. all = front \o ssp  BY <1>1 DEF front
  <2> QED BY <1>7, <1>8, <2>1, OctetsConcat
<1>10. HasAt(b, i, front) /\ HasAt(b, q, ssp)
  <2> HIDE DEF ssp
  <2> QED BY <1>7, <1>8, <1>9, HasAtParts
<1>11. Passed(b, i, 2, a)
  <2>1. HasAt(b, i, a)  BY <1>6, <1>10, HasAtParts DEF front
  <2> QED BY <1>4, <1>5, <2>1, FirstPassed DEF EncodeArraySize
<1>12. UnsignedAt(b, Nth(b, i, 2)) = e.uri /\ Passed(b, i, 2 + 1, front)
  <2>1. 2 \in Nat \ {0}  OBVIOUS
  <2>2. HasAt(b, i, a \o Encode(unsignedInteger, e.uri))  BY <1>10 DEF front, EncodeUnsigned
  <2> HIDE DEF a
  <2>3. /\ Decode(unsignedInteger, Item(b, Nth(b, i, 2))) = e.uri
        /\ Passed(b, i, 2 + 1, a \o Encode(unsignedInteger, e.uri))
    BY <1>2, <1>4, <1>11, <2>1, <2>2, NextPassed
  <2> QED BY <2>3 DEF UnsignedAt, front, EncodeUnsigned
<1>13. p = q
  <2>1. 2 + 1 = 3  OBVIOUS
  <2> QED BY <1>12, <2>1 DEF Passed
<1>14. q \in Nat /\ q + Len(ssp) = i + Len(all)
  <2> HIDE DEF ssp, all
  <2> QED BY <1>8, <1>9
<1> HIDE DEF p, q
<1>15. CASE e.uri = ipn
  <2>1. ssp = pair  BY <1>15
  <2>2. HasAt(b, q, pair)  BY <1>10, <2>1
  <2> HIDE DEF ssp
  <2>3. first \in Octets /\ second \in Octets
    BY <1>2, <1>4, <1>15, ItemBytes DEF EncodeUnsigned
  <2>4. HasAt(b, q, a \o first) /\ HasAt(b, q, a)
    <3> HIDE DEF a, first, second
    <3>1. a \o first \in Octets  BY <1>6, <2>3, OctetsConcat
    <3>2. HasAt(b, q, a \o first)  BY <2>2, <2>3, <3>1, HasAtParts
    <3> QED BY <1>6, <2>3, <3>2, HasAtParts
  <2>5. Passed(b, q, 2, a)  BY <1>4, <1>5, <2>4, FirstPassed DEF EncodeArraySize
  <2>6. /\ Decode(unsignedInteger, Item(b, Nth(b, q, 2))) = e.ssp[1]
        /\ Passed(b, q, 2 + 1, a \o first)
    <3>1. 2 \in Nat \ {0}  OBVIOUS
    <3>2. HasAt(b, q, a \o Encode(unsignedInteger, e.ssp[1]))  BY <2>4 DEF EncodeUnsigned
    <3> HIDE DEF a
    <3> QED BY <1>2, <1>4, <1>14, <1>15, <2>5, <3>1, <3>2, NextPassed DEF EncodeUnsigned
  <2>7. /\ Decode(unsignedInteger, Item(b, Nth(b, q, 3))) = e.ssp[2]
        /\ Passed(b, q, 3 + 1, pair)
    <3>1. 3 \in Nat \ {0} /\ 2 + 1 = 3  OBVIOUS
    <3> DEFINE c == a \o first
    <3>2. HasAt(b, q, c \o Encode(unsignedInteger, e.ssp[2]))  BY <2>2 DEF EncodeUnsigned
    <3>3. pair = c \o Encode(unsignedInteger, e.ssp[2])  BY DEF EncodeUnsigned
    <3>4. Passed(b, q, 3, c)  BY <2>6, <3>1
    <3> HIDE DEF c, pair
    <3> QED BY <1>2, <1>4, <1>14, <1>15, <3>1, <3>2, <3>3, <3>4, NextPassed
  <2>8. Nth(b, q, 4) = i + Len(all)
    <3>1. 3 + 1 = 4  OBVIOUS
    <3> QED BY <1>14, <2>1, <2>7, <3>1 DEF Passed
  <2> HIDE DEF all, name
  <2>9. DecodeEid(b, i) = [eid |-> [uri |-> ipn, ssp |-> <<e.ssp[1], e.ssp[2]>>],
                           next |-> i + Len(all)]
    BY <1>3, <1>12, <1>13, <1>15, <2>6, <2>7, <2>8 DEF UnsignedAt
  <2> QED BY <1>2, <1>9, <1>15, <2>9 DEF all
<1>16. CASE e.uri # ipn /\ e.ssp = None
  <2>1. ssp = EncodeUnsigned(0)  BY <1>16
  <2>2. HasAt(b, q, Encode(unsignedInteger, 0))  BY <1>10, <2>1 DEF EncodeUnsigned
  <2> HIDE DEF ssp
  <2>3. Passed(b, q, 2, ssp)  BY <1>4, <1>5, <2>1, <2>2, FirstPassed DEF EncodeUnsigned
  <2>4. b[q] = 0  BY <1>5, <2>2, FirstByteOf
  <2>5. Nth(b, q, 2) = i + Len(all)  BY <1>14, <2>3 DEF Passed
  <2> HIDE DEF all, name
  <2>6. DecodeEid(b, i) = [eid |-> [uri |-> dtn, ssp |-> Zero], next |-> i + Len(all)]
    BY <1>3, <1>12, <1>13, <1>16, <2>4, <2>5
  <2>7. Decodable(e) = [uri |-> dtn, ssp |-> Zero]
    <3>1. e = [uri |-> dtn, ssp |-> e.ssp]  BY <1>2, <1>16
    <3> QED BY <1>16, <3>1 DEF Decodable
  <2> QED BY <1>9, <2>6, <2>7 DEF all
<1>17. CASE e.uri # ipn /\ e.ssp # None
  <2>1. ssp = head \o e.ssp  BY <1>17
  <2>2. e.ssp \in Octets /\ Fits(Len(e.ssp))  BY <1>2, <1>17
  <2>3. head \in Octets  BY <1>4, <2>2, ItemBytes
  <2> HIDE DEF ssp, all
  <2>4. HasAt(b, q, head) /\ HasAt(b, q + Len(head), e.ssp)
    <3> HIDE DEF head
    <3> QED BY <1>10, <2>1, <2>2, <2>3, HasAtParts
  <2>5. Item(b, q).value = Len(e.ssp) /\ Item(b, q).next = q + Len(head)
    BY <1>4, <2>2, <2>4, ItemRead
  <2>6. b[q] # 0  BY <2>2, <2>4, FirstByteOf
  <2>7. name = e.ssp
    <3>1. SubSeq(b, q + Len(head), (q + Len(head)) + Len(e.ssp) - 1) = e.ssp
      BY <2>2, <2>4, HasAtCut
    <3> HIDE DEF head
    <3> QED BY <1>13, <2>5, <3>1 DEF DecodeBytes
  <2>8. Nth(b, q, 2) = q + Len(head)
    <3>1. Passed(b, q, 2, head)  BY <1>4, <2>2, <2>4, FirstPassed
    <3> QED BY <3>1 DEF Passed
  <2>9. (q + Len(head)) + Len(e.ssp) = i + Len(all)
    <3>1. Len(ssp) = Len(head) + Len(e.ssp) /\ Len(head) \in Nat /\ Len(e.ssp) \in Nat
      <4> HIDE DEF head
      <4> QED BY <2>1, <2>2, <2>3, OctetsConcat
    <3> DEFINE k == Len(head)
               l == Len(e.ssp)
               m == Len(ssp)
               n == Len(all)
    <3>2. m = k + l /\ k \in Nat /\ l \in Nat /\ q \in Nat /\ q + m = i + n  BY <1>14, <3>1
    <3> HIDE DEF k, l, m, n
    <3>3. (q + k) + l = i + n  BY <3>2
    <3> QED BY <3>3 DEF k, l, n
  <2> HIDE DEF name, head
  <2>10. DecodeEid(b, i) = [eid |-> [uri |-> dtn, ssp |-> e.ssp], next |-> i + Len(all)]
    BY <1>3, <1>12, <1>13, <1>17, <2>6, <2>7, <2>8, <2>9
  <2>11. Decodable(e) = [uri |-> dtn, ssp |-> e.ssp]
    <3>1. e = [uri |-> dtn, ssp |-> e.ssp]  BY <1>2, <1>17
    <3> QED BY <1>17, <3>1 DEF Decodable
  <2> QED BY <1>9, <2>10, <2>11 DEF all
<1> QED BY <1>15, <1>16, <1>17

(* One item further.                                                       *)
LEMMA NthRead ==
  ASSUME NEW b \in Octets, NEW i, NEW k \in Nat \ {0}, NEW tag \in 0..7, NEW val, Fits(val),
         HasAt(b, Nth(b, i, k), Encode(tag, val))
  PROVE  /\ Decode(tag, Item(b, Nth(b, i, k))) = val
         /\ Nth(b, i, k + 1) = Nth(b, i, k) + Len(Encode(tag, val))
BY NthNext, ItemRead

(* An array's size and three numbers.                                      *)
Four(size, v2, v3, v4) ==
  ((EncodeArraySize(size) \o EncodeUnsigned(v2)) \o EncodeUnsigned(v3)) \o EncodeUnsigned(v4)

(* They are bytes.                                                         *)
LEMMA FourBytes ==
  ASSUME NEW v1, NEW v2, NEW v3, NEW v4, Fits(v1), Fits(v2), Fits(v3), Fits(v4)
  PROVE  Four(v1, v2, v3, v4) \in Octets
<1> DEFINE e1 == EncodeArraySize(v1)
           e2 == EncodeUnsigned(v2)
           e3 == EncodeUnsigned(v3)
           e4 == EncodeUnsigned(v4)
<1>1. array \in 0..7 /\ unsignedInteger \in 0..7  BY DEF array, unsignedInteger
<1>2. e1 \in Octets /\ e2 \in Octets /\ e3 \in Octets /\ e4 \in Octets
  BY <1>1, ItemBytes DEF EncodeArraySize, EncodeUnsigned
<1>3. Four(v1, v2, v3, v4) = ((e1 \o e2) \o e3) \o e4  BY Zenon DEF Four
<1> HIDE DEF e1, e2, e3, e4
<1>4. e1 \o e2 \in Octets  BY <1>2, OctetsConcat
<1>5. (e1 \o e2) \o e3 \in Octets  BY <1>2, <1>4, OctetsConcat
<1>6. ((e1 \o e2) \o e3) \o e4 \in Octets  BY <1>2, <1>5, OctetsConcat
<1> QED BY <1>3, <1>6

(* Four items in a row.                                                    *)
LEMMA FourRead ==
  ASSUME NEW b \in Octets, NEW i \in Nat, NEW v1, NEW v2, NEW v3, NEW v4,
         Fits(v1), Fits(v2), Fits(v3), Fits(v4), HasAt(b, i, Four(v1, v2, v3, v4))
  PROVE  /\ Decode(array, Item(b, i)) = v1 /\ UnsignedAt(b, Nth(b, i, 2)) = v2
         /\ UnsignedAt(b, Nth(b, i, 3)) = v3 /\ UnsignedAt(b, Nth(b, i, 4)) = v4
         /\ Passed(b, i, 5, Four(v1, v2, v3, v4))
<1> DEFINE t1 == array
           t2 == unsignedInteger
           t3 == unsignedInteger
           t4 == unsignedInteger
           bytes == Four(v1, v2, v3, v4)
           e1 == Encode(t1, v1)
           e2 == Encode(t2, v2)
           e3 == Encode(t3, v3)
           e4 == Encode(t4, v4)
           two == e1 \o e2
           three == two \o e3
<1>0. t1 \in 0..7 /\ t2 \in 0..7 /\ t3 \in 0..7 /\ t4 \in 0..7
  BY DEF array, unsignedInteger
<1>1. e1 \in Octets /\ e2 \in Octets /\ e3 \in Octets /\ e4 \in Octets  BY <1>0, ItemBytes
<1>2. bytes = three \o e4  BY Zenon DEF Four, EncodeArraySize, EncodeUnsigned
<1>20. HasAt(b, i, bytes)  OBVIOUS
<1> HIDE DEF bytes, e1, e2, e3, e4
<1>3. two \in Octets  BY <1>1, OctetsConcat
<1> HIDE DEF two
<1>4. three \in Octets  BY <1>1, <1>3, OctetsConcat
<1> HIDE DEF three
<1>5. HasAt(b, i, three)  BY <1>1, <1>2, <1>4, <1>20, HasAtParts
<1>6. HasAt(b, i, two)  BY <1>1, <1>3, <1>5, HasAtParts DEF three
<1>7. HasAt(b, i, e1)  BY <1>1, <1>6, HasAtParts DEF two
<1>8. Nth(b, i, 1) = i
  <2>1. 1 \in Nat \ {0}  OBVIOUS
  <2> QED BY <2>1, NthNext
<1>9. Decode(t1, Item(b, i)) = v1 /\ Passed(b, i, 2, e1)
  BY <1>0, <1>7, <1>8, FirstPassed DEF e1
<1>10. 2 \in Nat \ {0} /\ 3 \in Nat \ {0} /\ 4 \in Nat \ {0} /\ 2 + 1 = 3 /\ 3 + 1 = 4 /\ 4 + 1 = 5
  OBVIOUS
<1>11. Decode(t2, Item(b, Nth(b, i, 2))) = v2 /\ Passed(b, i, 2 + 1, two)
  <2>1. HasAt(b, i, e1 \o Encode(t2, v2)) /\ two = e1 \o Encode(t2, v2)  BY <1>6 DEF two, e2
  <2> QED BY <1>0, <1>9, <1>10, <2>1, NextPassed
<1>12. Decode(t3, Item(b, Nth(b, i, 3))) = v3 /\ Passed(b, i, 3 + 1, three)
  <2>1. HasAt(b, i, two \o Encode(t3, v3)) /\ three = two \o Encode(t3, v3)
    BY <1>5 DEF three, e3
  <2> QED BY <1>0, <1>10, <1>11, <2>1, NextPassed
<1>13. Decode(t4, Item(b, Nth(b, i, 4))) = v4 /\ Passed(b, i, 4 + 1, bytes)
  <2>1. HasAt(b, i, three \o Encode(t4, v4)) /\ bytes = three \o Encode(t4, v4)
    BY <1>2, <1>20 DEF e4
  <2> QED BY <1>0, <1>10, <1>12, <2>1, NextPassed
<1> HIDE DEF t1, t2, t3, t4
<1>14. Decode(t1, Item(b, i)) = v1 /\ Decode(t2, Item(b, Nth(b, i, 2))) = v2
       /\ Decode(t3, Item(b, Nth(b, i, 3))) = v3 /\ Decode(t4, Item(b, Nth(b, i, 4))) = v4
       /\ Passed(b, i, 5, bytes)
  BY <1>9, <1>10, <1>11, <1>12, <1>13
<1> QED BY <1>14, Zenon DEF UnsignedAt, t1, t2, t3, t4, bytes

(* Flags take three bytes at most.                                         *)
LEMMA FlagsFit == ASSUME NEW bits PROVE Fits(NumberOf(bits))
<1>1. PICK sum : Sums(sum, bits) /\ NumberOf(bits) = sum[Width]  BY SumIs
<1>2. Width = 19  BY DEF Width
<1>3. /\ \A k \in 0..19 : sum[k] \in Nat
      /\ sum[0] = 0 /\ NumberOf(bits) = sum[19]
      /\ \A k \in 1..19 : sum[k] = 2 * sum[k - 1] + (IF 19 - k \in bits THEN 1 ELSE 0)
  BY <1>1, <1>2 DEF Sums
<1>4. ASSUME NEW k \in 1..19 PROVE sum[k] \in Nat /\ sum[k] <= 2 * sum[k - 1] + 1
  <2> DEFINE x == sum[k - 1]
             y == sum[k]
  <2>1. k - 1 \in 0..19 /\ k \in 0..19  OBVIOUS
  <2>2. x \in Nat /\ y \in Nat /\ y = 2 * x + (IF 19 - k \in bits THEN 1 ELSE 0)
    BY <1>3, <2>1
  <2> HIDE DEF x, y
  <2>3. y <= 2 * x + 1  BY <2>2
  <2> QED BY <2>2, <2>3 DEF x, y
<1>5. /\ sum[1] \in Nat /\ sum[1] <= 2 * sum[0] + 1
      /\ sum[2] \in Nat /\ sum[2] <= 2 * sum[1] + 1
      /\ sum[3] \in Nat /\ sum[3] <= 2 * sum[2] + 1
      /\ sum[4] \in Nat /\ sum[4] <= 2 * sum[3] + 1
      /\ sum[5] \in Nat /\ sum[5] <= 2 * sum[4] + 1
      /\ sum[6] \in Nat /\ sum[6] <= 2 * sum[5] + 1
      /\ sum[7] \in Nat /\ sum[7] <= 2 * sum[6] + 1
      /\ sum[8] \in Nat /\ sum[8] <= 2 * sum[7] + 1
      /\ sum[9] \in Nat /\ sum[9] <= 2 * sum[8] + 1
      /\ sum[10] \in Nat /\ sum[10] <= 2 * sum[9] + 1
      /\ sum[11] \in Nat /\ sum[11] <= 2 * sum[10] + 1
      /\ sum[12] \in Nat /\ sum[12] <= 2 * sum[11] + 1
      /\ sum[13] \in Nat /\ sum[13] <= 2 * sum[12] + 1
      /\ sum[14] \in Nat /\ sum[14] <= 2 * sum[13] + 1
      /\ sum[15] \in Nat /\ sum[15] <= 2 * sum[14] + 1
      /\ sum[16] \in Nat /\ sum[16] <= 2 * sum[15] + 1
      /\ sum[17] \in Nat /\ sum[17] <= 2 * sum[16] + 1
      /\ sum[18] \in Nat /\ sum[18] <= 2 * sum[17] + 1
      /\ sum[19] \in Nat /\ sum[19] <= 2 * sum[18] + 1
  BY <1>4
<1>6. sum[19] < 256 * 256 * 256  BY <1>3, <1>5
<1> QED BY <1>3, <1>5, <1>6, SmallIsWord, WordFits

(* The numbers of a header fit.                                            *)
LEMMA NumbersFit ==
  ASSUME NEW h \in BundleType
  PROVE  /\ Fits(h.lifetime) /\ \A n \in Numbers : Fits(h.number[n])
         /\ {"createTimestamp", "timestampSeqNum", "fragOffset", "aduLength"} = Numbers
<1>1. \A n \in Words : Fits(n)  BY WordFits DEF Words
<1>2. h.number \in [Numbers -> Words] /\ h.lifetime \in Words  BY DEF BundleType
<1> QED BY <1>1, <1>2 DEF Numbers

(* The flags are bits that a number of 19 bits holds.                      *)
LEMMA FlagsRead ==
  ASSUME NEW h \in BundleType
  PROVE  /\ Fits(NumberOf(h.flags)) /\ BitsOf(NumberOf(h.flags), 0..18) = h.flags
         /\ Fits(NumberOf(h.blockFlags)) /\ BitsOf(NumberOf(h.blockFlags), 0..7) = h.blockFlags
<1>1. h.flags \in SUBSET (0..18) /\ h.blockFlags \in SUBSET (0..7)  BY DEF BundleType
<1>2. 0..18 \in SUBSET (0..(Width - 1)) /\ 0..7 \in SUBSET (0..(Width - 1))  BY DEF Width
<1> QED BY <1>1, <1>2, FlagsFit, BitsRead

(* What is written before the endpoint ids.                                *)
LEMMA BeforeBytes ==
  ASSUME NEW h \in BundleType
  PROVE  \E size \in 0..255 :
           /\ size > 8 <=> Fragment \in h.flags
           /\ Fits(size) /\ Fits(7) /\ Fits(0) /\ Fits(NumberOf(h.flags))
           /\ BeforeEids(h) = Four(size, 7, NumberOf(h.flags), 0)
           /\ BeforeEids(h) \in Octets
<1> DEFINE size == IF Fragment \in h.flags THEN 10 ELSE 8
           n == NumberOf(h.flags)
<1>1. BeforeEids(h) = Four(size, 7, n, 0)  BY Zenon DEF BeforeEids, Four
<1>2. size \in 0..255 /\ (size > 8 <=> Fragment \in h.flags)  OBVIOUS
<1> HIDE DEF size
<1>3. Fits(size) /\ Fits(7) /\ Fits(0)  BY <1>2, SmallFits
<1>4. Fits(n)  BY FlagsRead
<1> HIDE DEF n
<1>5. Four(size, 7, n, 0) \in Octets  BY <1>3, <1>4, FourBytes
<1> QED BY <1>1, <1>2, <1>3, <1>4, <1>5 DEF n

(* It is read as it was written.                                           *)
LEMMA BeforeRead ==
  ASSUME NEW b \in Octets, NEW i \in Nat, NEW h \in BundleType, HasAt(b, i, BeforeEids(h))
  PROVE  /\ Decode(array, Item(b, i)) > 8 <=> Fragment \in h.flags
         /\ BitsOf(UnsignedAt(b, Nth(b, i, 3)), 0..18) = h.flags
         /\ Passed(b, i, 5, BeforeEids(h))
<1> DEFINE n == NumberOf(h.flags)
           bytes == BeforeEids(h)
<1>1. PICK size \in 0..255 :
        /\ size > 8 <=> Fragment \in h.flags
        /\ Fits(size) /\ Fits(7) /\ Fits(0) /\ Fits(n)
        /\ bytes = Four(size, 7, n, 0)
  BY BeforeBytes
<1>2. HasAt(b, i, bytes) /\ BitsOf(n, 0..18) = h.flags  BY FlagsRead
<1> HIDE DEF n, bytes
<1>3. /\ Decode(array, Item(b, i)) = size
      /\ UnsignedAt(b, Nth(b, i, 3)) = n
      /\ Passed(b, i, 5, bytes)
  BY <1>1, <1>2, FourRead
<1> QED BY <1>1, <1>2, <1>3 DEF bytes

(* What is written behind them.                                            *)
LEMMA BehindBytes ==
  ASSUME NEW h \in BundleType
  PROVE  /\ BehindEids(h) = Four(2, h.number["createTimestamp"], h.number["timestampSeqNum"],
                                 h.lifetime) \o FragmentFields(h)
         /\ Four(2, h.number["createTimestamp"], h.number["timestampSeqNum"], h.lifetime) \in Octets
         /\ FragmentFields(h) \in Octets /\ BehindEids(h) \in Octets
         /\ EncodeUnsigned(h.number["fragOffset"]) \in Octets
         /\ EncodeUnsigned(h.number["aduLength"]) \in Octets
<1> DEFINE four == Four(2, h.number["createTimestamp"], h.number["timestampSeqNum"], h.lifetime)
           x == EncodeUnsigned(h.number["fragOffset"])
           y == EncodeUnsigned(h.number["aduLength"])
           more == FragmentFields(h)
<1>1. BehindEids(h) = four \o more  BY Zenon DEF BehindEids, Four
<1>2. unsignedInteger \in 0..7 /\ Fits(2)  BY SmallFits DEF unsignedInteger
<1>3. four \in Octets  BY <1>2, NumbersFit, FourBytes
<1>4. x \in Octets /\ y \in Octets  BY <1>2, NumbersFit, ItemBytes DEF EncodeUnsigned
<1>5. more = IF Fragment \notin h.flags THEN <<>> ELSE x \o y  BY Zenon DEF FragmentFields
<1>6. <<>> \in Octets  BY DEF Octets
<1> HIDE DEF four, x, y, more
<1>7. x \o y \in Octets  BY <1>4, OctetsConcat
<1>8. more \in Octets  BY <1>5, <1>6, <1>7
<1>9. four \o more \in Octets  BY <1>3, <1>8, OctetsConcat
<1> QED BY <1>1, <1>3, <1>4, <1>8, <1>9 DEF four, x, y, more

(* They are read as they were written.                                     *)
LEMMA BehindRead ==
  ASSUME NEW b \in Octets, NEW i \in Nat, NEW h \in BundleType, HasAt(b, i, BehindEids(h))
  PROVE  /\ UnsignedAt(b, Nth(b, i, 2)) = h.number["createTimestamp"]
         /\ UnsignedAt(b, Nth(b, i, 3)) = h.number["timestampSeqNum"]
         /\ UnsignedAt(b, Nth(b, i, 4)) = h.lifetime
         /\ Fragment \in h.flags =>
              /\ UnsignedAt(b, Nth(b, i, 5)) = h.number["fragOffset"]
              /\ UnsignedAt(b, Nth(b, i, 6)) = h.number["aduLength"]
         /\ Nth(b, i, IF Fragment \in h.flags THEN 7 ELSE 5) = i + Len(BehindEids(h))
<1> DEFINE t == h.number["createTimestamp"]
           s == h.number["timestampSeqNum"]
           l == h.lifetime
           o == h.number["fragOffset"]
           a == h.number["aduLength"]
           four == Four(2, t, s, l)
           x == Encode(unsignedInteger, o)
           y == Encode(unsignedInteger, a)
           more == FragmentFields(h)
           all == BehindEids(h)
<1>1. all = four \o more  BY BehindBytes
<1>2. array \in 0..7 /\ unsignedInteger \in 0..7  BY DEF array, unsignedInteger
<1>3. Fits(2)  BY SmallFits
<1>4. Fits(t) /\ Fits(s) /\ Fits(l) /\ Fits(o) /\ Fits(a)  BY NumbersFit
<1>5. four \in Octets  BY BehindBytes
<1>6. x \in Octets /\ y \in Octets  BY BehindBytes DEF EncodeUnsigned
<1>7. more = IF Fragment \notin h.flags THEN <<>> ELSE x \o y
  BY Zenon DEF FragmentFields, EncodeUnsigned
<1>8. more \in Octets  BY BehindBytes
<1> HIDE DEF all, more
<1>9. all \in Octets /\ Len(all) = Len(four) + Len(more) /\ Len(four) \in Nat /\ Len(more) \in Nat
  <2> HIDE DEF four
  <2> QED BY <1>1, <1>5, <1>8, OctetsConcat
<1>10. HasAt(b, i, four) /\ HasAt(b, i + Len(four), more)
  <2>1. HasAt(b, i, all)  BY DEF all
  <2> HIDE DEF four
  <2> QED BY <1>1, <1>5, <1>8, <2>1, HasAtParts
<1>11. /\ UnsignedAt(b, Nth(b, i, 2)) = t
       /\ UnsignedAt(b, Nth(b, i, 3)) = s
       /\ UnsignedAt(b, Nth(b, i, 4)) = l
       /\ Passed(b, i, 5, four)
  <2> HIDE DEF t, s, l
  <2> QED BY <1>3, <1>4, <1>10, FourRead
<1> HIDE DEF four
<1>12. Nth(b, i, 5) = i + Len(four)  BY <1>11 DEF Passed
<1>13. CASE Fragment \notin h.flags
  <2>1. Len(more) = 0  BY <1>7, <1>13
  <2>2. Nth(b, i, 5) = i + Len(all)  BY <1>9, <1>12, <2>1
  <2> QED BY <1>9, <1>11, <1>13, <2>2 DEF UnsignedAt, all
<1>14. CASE Fragment \in h.flags
  <2> DEFINE p == i + Len(four)
  <2>1. more = x \o y  BY <1>7, <1>14
  <2>2. HasAt(b, p, x) /\ HasAt(b, p + Len(x), y)
    <3> HIDE DEF x, y, p
    <3>1. HasAt(b, p, more)  BY <1>10 DEF p
    <3> QED BY <1>6, <2>1, <3>1, HasAtParts
  <2>3. 5 \in Nat \ {0} /\ 6 \in Nat \ {0} /\ 5 + 1 = 6 /\ 6 + 1 = 7  OBVIOUS
  <2>4. Decode(unsignedInteger, Item(b, Nth(b, i, 5))) = o /\ Nth(b, i, 6) = p + Len(x)
    <3>1. HasAt(b, Nth(b, i, 5), Encode(unsignedInteger, o))  BY <1>12, <2>2
    <3>2. Nth(b, i, 5 + 1) = Nth(b, i, 5) + Len(x)
          /\ Decode(unsignedInteger, Item(b, Nth(b, i, 5))) = o
      BY <1>2, <1>4, <2>3, <3>1, NthRead
    <3> QED BY <1>12, <2>3, <3>2
  <2>5. /\ Decode(unsignedInteger, Item(b, Nth(b, i, 6))) = a
        /\ Nth(b, i, 7) = (p + Len(x)) + Len(y)
    <3>1. HasAt(b, Nth(b, i, 6), Encode(unsignedInteger, a))  BY <2>2, <2>4
    <3>2. Nth(b, i, 6 + 1) = Nth(b, i, 6) + Len(y)
          /\ Decode(unsignedInteger, Item(b, Nth(b, i, 6))) = a
      BY <1>2, <1>4, <2>3, <3>1, NthRead
    <3> QED BY <2>3, <2>4, <3>2
  <2>6. (p + Len(x)) + Len(y) = i + Len(all)
    <3> HIDE DEF x, y
    <3>1. Len(more) = Len(x) + Len(y) /\ Len(x) \in Nat /\ Len(y) \in Nat
      BY <1>6, <2>1, OctetsConcat
    <3> QED BY <1>9, <3>1
  <2>7. Nth(b, i, 7) = i + Len(all)  BY <2>5, <2>6
  <2> QED BY <1>9, <1>11, <1>14, <2>4, <2>5, <2>7 DEF UnsignedAt, all
<1> QED BY <1>13, <1>14

(* What DeserializePrimary returns of the endpoint ids and what stands     *)
(* behind them, once it is known where each begins.                        *)
PrimaryFrom(b, i, at) ==
  [flags |-> BitsOf(UnsignedAt(b, Nth(b, i, 3)), 0..18),
   eid |-> [r \in Roles |->
     DecodeEid(b, at[CASE r = "dst" -> 1 [] r = "src" -> 2 [] r = "report" -> 3]).eid],
   number |-> [n \in Numbers |->
     CASE n = "createTimestamp" -> UnsignedAt(b, Nth(b, at[4], 2))
       [] n = "timestampSeqNum" -> UnsignedAt(b, Nth(b, at[4], 3))
       [] n = "fragOffset" ->
            IF Decode(array, Item(b, i)) > 8 THEN UnsignedAt(b, Nth(b, at[4], 5)) ELSE 0
       [] n = "aduLength" ->
            IF Decode(array, Item(b, i)) > 8 THEN UnsignedAt(b, Nth(b, at[4], 6)) ELSE 0],
   lifetime |-> UnsignedAt(b, Nth(b, at[4], 4)),
   next |-> Nth(b, at[4], IF Decode(array, Item(b, i)) > 8 THEN 7 ELSE 5)]

IsEidAt(at, b, i) ==
  at = [k \in 1..4 |-> IF k = 1 THEN Nth(b, i, 5) ELSE DecodeEid(b, at[k - 1]).next]

(* Each endpoint id is looked for where the one before it ends.            *)
LEMMA EidAtSteps ==
  ASSUME NEW b, NEW i
  PROVE  \E at : /\ at[1] = Nth(b, i, 5) /\ at[2] = DecodeEid(b, at[1]).next
                 /\ at[3] = DecodeEid(b, at[2]).next /\ at[4] = DecodeEid(b, at[3]).next
                 /\ DeserializePrimary(b, i) = PrimaryFrom(b, i, at)
<1> DEFINE x1 == Nth(b, i, 5)
           behind(x) == DecodeEid(b, x).next
           x2 == behind(x1)
           x3 == behind(x2)
           x4 == behind(x3)
           f == [k \in 1..4 |-> IF k = 1 THEN x1 ELSE IF k = 2 THEN x2
                                 ELSE IF k = 3 THEN x3 ELSE x4]
           at == CHOOSE g : IsEidAt(g, b, i)
<1>1. IsEidAt(f, b, i)
  <2>1. f = [k \in 1..4 |-> f[k]]  OBVIOUS
  <2>2. f[1] = x1 /\ f[2] = x2 /\ f[3] = x3 /\ f[4] = x4  OBVIOUS
  <2>3. x2 = behind(x1) /\ x3 = behind(x2) /\ x4 = behind(x3)  OBVIOUS
  <2> HIDE DEF f, behind, x1, x2, x3, x4
  <2>4. ASSUME NEW k \in 1..4 PROVE f[k] = IF k = 1 THEN x1 ELSE behind(f[k - 1])
    <3>1. k = 1 \/ k = 2 \/ k = 3 \/ k = 4  OBVIOUS
    <3>2. 2 - 1 = 1 /\ 3 - 1 = 2 /\ 4 - 1 = 3  OBVIOUS
    <3> QED BY <2>2, <2>3, <3>1, <3>2
  <2> QED BY <2>1, <2>4, Zenon DEF IsEidAt, behind, x1
<1>2. IsEidAt(at, b, i)  BY <1>1, Zenon
<1>3. DeserializePrimary(b, i) = PrimaryFrom(b, i, at)
  BY Zenon DEF DeserializePrimary, PrimaryFrom, IsEidAt
<1> HIDE DEF at
<1>4. \A k \in 1..4 : at[k] = IF k = 1 THEN Nth(b, i, 5) ELSE behind(at[k - 1])
  BY <1>2, Zenon DEF IsEidAt
<1> HIDE DEF behind
<1>5. /\ 1 \in 1..4 /\ 2 \in 1..4 /\ 3 \in 1..4 /\ 4 \in 1..4
      /\ 2 - 1 = 1 /\ 3 - 1 = 2 /\ 4 - 1 = 3
  OBVIOUS
<1>6. /\ at[1] = Nth(b, i, 5) /\ at[2] = behind(at[1])
      /\ at[3] = behind(at[2]) /\ at[4] = behind(at[3])
  BY <1>4, <1>5
<1> QED BY <1>3, <1>6 DEF behind

(* The primary header is written in bytes.                                 *)
LEMMA PrimaryBytes ==
  ASSUME NEW h \in BundleType
  PROVE  LET one == BeforeEids(h) \o EncodeEid(h.eid["dst"])
             two == one \o EncodeEid(h.eid["src"])
             three == two \o EncodeEid(h.eid["report"])
         IN  /\ SerializePrimary(h) = three \o BehindEids(h)
             /\ one \in Octets /\ two \in Octets /\ three \in Octets
             /\ SerializePrimary(h) \in Octets
<1> DEFINE before == BeforeEids(h)
           dst == EncodeEid(h.eid["dst"])
           src == EncodeEid(h.eid["src"])
           report == EncodeEid(h.eid["report"])
           behind == BehindEids(h)
<1>1. before \in Octets /\ behind \in Octets  BY BeforeBytes, BehindBytes
<1>2. dst \in Octets /\ src \in Octets /\ report \in Octets
  <2>1. h.eid["dst"] \in Known /\ h.eid["src"] \in Known /\ h.eid["report"] \in Known
    BY DEF BundleType, Roles
  <2> QED BY <2>1, EidBytes
<1>3. SerializePrimary(h) = (((before \o dst) \o src) \o report) \o behind
  BY Zenon DEF SerializePrimary
<1> HIDE DEF before, dst, src, report, behind
<1>4. before \o dst \in Octets  BY <1>1, <1>2, OctetsConcat
<1>5. (before \o dst) \o src \in Octets  BY <1>2, <1>4, OctetsConcat
<1>6. ((before \o dst) \o src) \o report \in Octets  BY <1>2, <1>5, OctetsConcat
<1>7. (((before \o dst) \o src) \o report) \o behind \in Octets
  BY <1>1, <1>6, OctetsConcat
<1> QED BY <1>3, <1>4, <1>5, <1>6, <1>7 DEF before, dst, src, report, behind

(* Each of the three is found where it was written.                        *)
LEMMA EidsRead ==
  ASSUME NEW b \in Octets, NEW i \in Nat, NEW h \in BundleType,
         HasAt(b, i, SerializePrimary(h)),
         NEW at, at[1] = Nth(b, i, 5), at[2] = DecodeEid(b, at[1]).next,
         at[3] = DecodeEid(b, at[2]).next, at[4] = DecodeEid(b, at[3]).next
  PROVE  /\ DecodeEid(b, at[1]).eid = Decodable(h.eid["dst"])
         /\ DecodeEid(b, at[2]).eid = Decodable(h.eid["src"])
         /\ DecodeEid(b, at[3]).eid = Decodable(h.eid["report"])
         /\ HasAt(b, i, BeforeEids(h)) /\ HasAt(b, at[4], BehindEids(h))
         /\ at[4] \in Nat /\ at[4] + Len(BehindEids(h)) = i + Len(SerializePrimary(h))
<1> DEFINE before == BeforeEids(h)
           dst == EncodeEid(h.eid["dst"])
           src == EncodeEid(h.eid["src"])
           report == EncodeEid(h.eid["report"])
           behind == BehindEids(h)
           one == before \o dst
           two == one \o src
           three == two \o report
           all == SerializePrimary(h)
<1>1. before \in Octets /\ behind \in Octets  BY BeforeBytes, BehindBytes
<1>2. h.eid["dst"] \in Known /\ h.eid["src"] \in Known /\ h.eid["report"] \in Known
  BY DEF BundleType, Roles
<1>3. dst \in Octets /\ src \in Octets /\ report \in Octets  BY <1>2, EidBytes
<1>4. all = three \o behind /\ one \in Octets /\ two \in Octets /\ three \in Octets
      /\ all \in Octets
  BY PrimaryBytes
<1>5. HasAt(b, i, all)  OBVIOUS
<1> HIDE DEF all, before, behind, dst, src, report
<1>6. HasAt(b, i, three) /\ HasAt(b, i + Len(three), behind)
  <2> HIDE DEF one, two, three
  <2> QED BY <1>1, <1>4, <1>5, HasAtParts
<1>7. HasAt(b, i, two) /\ HasAt(b, i + Len(two), report)
  <2> HIDE DEF one, two
  <2> QED BY <1>3, <1>4, <1>6, HasAtParts
<1>8. HasAt(b, i, one) /\ HasAt(b, i + Len(one), src)
  <2> HIDE DEF one
  <2> QED BY <1>3, <1>4, <1>7, HasAtParts
<1>9. HasAt(b, i, before) /\ HasAt(b, i + Len(before), dst)
  BY <1>1, <1>3, <1>8, HasAtParts
<1>10. /\ Len(all) = Len(three) + Len(behind) /\ Len(three) = Len(two) + Len(report)
       /\ Len(two) = Len(one) + Len(src) /\ Len(one) = Len(before) + Len(dst)
       /\ Len(before) \in Nat /\ Len(dst) \in Nat /\ Len(src) \in Nat
       /\ Len(report) \in Nat /\ Len(behind) \in Nat
  <2>1. Len(one) = Len(before) + Len(dst) /\ Len(before) \in Nat /\ Len(dst) \in Nat
    BY <1>1, <1>3, OctetsConcat
  <2> HIDE DEF one
  <2>2. Len(two) = Len(one) + Len(src) /\ Len(src) \in Nat  BY <1>3, <1>4, OctetsConcat
  <2> HIDE DEF two
  <2>3. Len(three) = Len(two) + Len(report) /\ Len(report) \in Nat
    BY <1>3, <1>4, OctetsConcat
  <2> HIDE DEF three
  <2>4. Len(all) = Len(three) + Len(behind) /\ Len(behind) \in Nat
    BY <1>1, <1>4, OctetsConcat
  <2> QED BY <2>1, <2>2, <2>3, <2>4
<1> HIDE DEF one, two, three
<1> DEFINE l1 == Len(before)
           l2 == Len(dst)
           l3 == Len(src)
           l4 == Len(report)
           l5 == Len(behind)
           n1 == Len(one)
           n2 == Len(two)
           n3 == Len(three)
           n == Len(all)
<1>11. /\ n = n3 + l5 /\ n3 = n2 + l4 /\ n2 = n1 + l3 /\ n1 = l1 + l2
       /\ l1 \in Nat /\ l2 \in Nat /\ l3 \in Nat /\ l4 \in Nat /\ l5 \in Nat
  BY <1>10
<1>12. at[1] = i + l1
  <2>1. Passed(b, i, 5, before)  BY <1>9, BeforeRead DEF before
  <2> QED BY <2>1 DEF Passed
<1>13. /\ DecodeEid(b, i + l1) = [eid |-> Decodable(h.eid["dst"]), next |-> (i + l1) + l2]
       /\ DecodeEid(b, i + n1) = [eid |-> Decodable(h.eid["src"]), next |-> (i + n1) + l3]
       /\ DecodeEid(b, i + n2) = [eid |-> Decodable(h.eid["report"]), next |-> (i + n2) + l4]
  <2>1. i + l1 \in Nat /\ i + n1 \in Nat /\ i + n2 \in Nat
    <3> HIDE DEF l1, l2, l3, l4, l5, n1, n2, n3, n
    <3> QED BY <1>11
  <2>2. HasAt(b, i + l1, dst) /\ HasAt(b, i + n1, src) /\ HasAt(b, i + n2, report)
    BY <1>7, <1>8, <1>9
  <2> HIDE DEF l1, n1, n2
  <2> QED BY <1>2, <2>1, <2>2, EidRead DEF dst, src, report
<1>14. HasAt(b, i + n3, behind)  BY <1>6
<1> HIDE DEF l1, l2, l3, l4, l5, n1, n2, n3, n
<1>15. (i + l1) + l2 = i + n1 /\ (i + n1) + l3 = i + n2 /\ (i + n2) + l4 = i + n3
       /\ i + n3 \in Nat /\ (i + n3) + l5 = i + n
  BY <1>11
<1>16. at[2] = i + n1  BY <1>12, <1>13, <1>15
<1>17. at[3] = i + n2  BY <1>13, <1>15, <1>16
<1>18. at[4] = i + n3  BY <1>13, <1>15, <1>17
<1>19. at[4] \in Nat /\ at[4] + l5 = i + n  BY <1>15, <1>18
<1> QED BY <1>9, <1>12, <1>13, <1>14, <1>16, <1>17, <1>18, <1>19 DEF before, behind, all, l5, n

(* DeserializePrimary returns what SerializePrimary wrote.                 *)
LEMMA PrimaryRead ==
  ASSUME NEW b \in Octets, NEW i \in Nat, NEW h \in BundleType,
         HasAt(b, i, SerializePrimary(h)), NEW p, p = DeserializePrimary(b, i)
  PROVE  /\ p.flags = h.flags /\ p.lifetime = h.lifetime
         /\ \A r \in Roles : p.eid[r] = Decodable(h.eid[r])
         /\ \A n \in {"createTimestamp", "timestampSeqNum"} : p.number[n] = h.number[n]
         /\ Fragment \in h.flags => p.number = h.number
         /\ p.next = i + Len(SerializePrimary(h))
<1>1. PICK at : /\ at[1] = Nth(b, i, 5) /\ at[2] = DecodeEid(b, at[1]).next
                /\ at[3] = DecodeEid(b, at[2]).next /\ at[4] = DecodeEid(b, at[3]).next
                /\ p = PrimaryFrom(b, i, at)
  BY EidAtSteps
<1>2. /\ DecodeEid(b, at[1]).eid = Decodable(h.eid["dst"])
      /\ DecodeEid(b, at[2]).eid = Decodable(h.eid["src"])
      /\ DecodeEid(b, at[3]).eid = Decodable(h.eid["report"])
      /\ HasAt(b, i, BeforeEids(h)) /\ HasAt(b, at[4], BehindEids(h))
      /\ at[4] \in Nat /\ at[4] + Len(BehindEids(h)) = i + Len(SerializePrimary(h))
  BY <1>1, EidsRead
<1> DEFINE more == Decode(array, Item(b, i)) > 8
           ts == UnsignedAt(b, Nth(b, at[4], 2))
           seq == UnsignedAt(b, Nth(b, at[4], 3))
           life == UnsignedAt(b, Nth(b, at[4], 4))
           off == UnsignedAt(b, Nth(b, at[4], 5))
           len == UnsignedAt(b, Nth(b, at[4], 6))
           fl == BitsOf(UnsignedAt(b, Nth(b, i, 3)), 0..18)
           end == Nth(b, at[4], IF more THEN 7 ELSE 5)
           id(r) == DecodeEid(b, at[CASE r = "dst" -> 1 [] r = "src" -> 2 [] r = "report" -> 3]).eid
           num(n) == CASE n = "createTimestamp" -> ts
                       [] n = "timestampSeqNum" -> seq
                       [] n = "fragOffset" -> IF more THEN off ELSE 0
                       [] n = "aduLength" -> IF more THEN len ELSE 0
<1>3. p = [flags |-> fl, eid |-> [r \in Roles |-> id(r)], number |-> [n \in Numbers |-> num(n)],
           lifetime |-> life, next |-> end]
  BY <1>1, Zenon DEF PrimaryFrom
<1>4. (more <=> Fragment \in h.flags) /\ fl = h.flags
  BY <1>2, BeforeRead
<1>5. /\ ts = h.number["createTimestamp"] /\ seq = h.number["timestampSeqNum"]
      /\ life = h.lifetime
      /\ Fragment \in h.flags => off = h.number["fragOffset"] /\ len = h.number["aduLength"]
      /\ Nth(b, at[4], IF Fragment \in h.flags THEN 7 ELSE 5) = i + Len(SerializePrimary(h))
  BY <1>2, BehindRead
<1>6. end = i + Len(SerializePrimary(h))
  <2> HIDE DEF more
  <2> QED BY <1>4, <1>5
<1>7. id("dst") = Decodable(h.eid["dst"]) /\ id("src") = Decodable(h.eid["src"])
      /\ id("report") = Decodable(h.eid["report"])
  <2> DEFINE k(r) == CASE r = "dst" -> 1 [] r = "src" -> 2 [] r = "report" -> 3
  <2>1. k("dst") = 1 /\ k("src") = 2 /\ k("report") = 3  OBVIOUS
  <2>2. \A r : id(r) = DecodeEid(b, at[k(r)]).eid  OBVIOUS
  <2> HIDE DEF k, id
  <2> QED BY <1>2, <2>1, <2>2
<1>8. /\ num("createTimestamp") = ts /\ num("timestampSeqNum") = seq
      /\ more => num("fragOffset") = off /\ num("aduLength") = len
  <2> HIDE DEF more, ts, seq, off, len
  <2> QED OBVIOUS
<1> HIDE DEF more, ts, seq, life, off, len, fl, end, id, num
<1>9. /\ p.flags = fl /\ p.lifetime = life /\ p.next = end
      /\ \A r \in Roles : p.eid[r] = id(r)
      /\ p.number = [n \in Numbers |-> num(n)]
  BY <1>3
<1>10. \A r \in Roles : p.eid[r] = Decodable(h.eid[r])  BY <1>7, <1>9 DEF Roles
<1>11. \A n \in {"createTimestamp", "timestampSeqNum"} : p.number[n] = h.number[n]
  BY <1>5, <1>8, <1>9 DEF Numbers
<1>12. ASSUME Fragment \in h.flags PROVE p.number = h.number
  <2>1. \A n \in Numbers : num(n) = h.number[n]
    BY <1>4, <1>5, <1>8, <1>12 DEF Numbers
  <2>2. h.number = [n \in Numbers |-> h.number[n]]  BY DEF BundleType
  <2> QED BY <1>9, <2>1, <2>2
<1> QED BY <1>4, <1>5, <1>6, <1>9, <1>10, <1>11, <1>12

(* What is cut out of the ADU is as long as the block says.                *)
LEMMA CutLen ==
  ASSUME NEW h \in BundleType, h.number["fragOffset"] + h.blockLength <= Len(h.adu)
  PROVE  Cut(h) \in Octets /\ Len(Cut(h)) = h.blockLength
<1> DEFINE o == h.number["fragOffset"]
           l == h.blockLength
           n == Len(h.adu)
           adu == h.adu
           cut == SubSeq(adu, o + 1, o + l)
<1>1. o \in Nat /\ l \in Nat  BY DEF BundleType, Numbers, Words
<1>2. adu \in Octets /\ n \in Nat /\ \A k \in 1..n : adu[k] \in Octet
  <2> DEFINE Payloads == Seq(0..255)
  <2>1. Payloads = Octets  BY DEF Octets, Octet
  <2>2. BundleType = [flags : SUBSET (0..18), eid : [Roles -> Known], number : [Numbers -> Words],
                      lifetime : Words, blockFlags : SUBSET (0..7), blockLength : Words,
                      adu : Payloads]
    BY Zenon DEF BundleType
  <2> HIDE DEF Payloads
  <2>3. adu \in Octets  BY <2>1, <2>2
  <2> QED BY <2>3 DEF Octets
<1>3. Cut(h) = cut  BY Zenon DEF Cut
<1>4. o + l <= n  OBVIOUS
<1> HIDE DEF o, l, n, adu
<1>5. \A k \in (o + 1)..(o + l) : adu[k] \in Octet
  <2>1. \A k \in (o + 1)..(o + l) : k \in 1..n  BY <1>1, <1>2, <1>4
  <2> QED BY <1>2, <2>1
<1>6. /\ cut \in Seq(Octet)
      /\ Len(cut) = IF o + 1 <= o + l THEN (o + l) - (o + 1) + 1 ELSE 0
  <2>1. o + 1 \in Int /\ o + l \in Int  BY <1>1
  <2> QED BY <1>5, <2>1, SubSeqProperties
<1> HIDE DEF cut
<1>7. Len(cut) = l  BY <1>1, <1>6
<1> QED BY <1>3, <1>6, <1>7 DEF Octets, l

(* The payload block is written in bytes.                                  *)
LEMMA PayloadBytes ==
  ASSUME NEW h \in BundleType, NEW cut \in Octets, Fits(Len(cut))
  PROVE  SerializePayloadHeader(h) \in Octets /\ EncodeBytes(cut) \in Octets
<1> DEFINE n == NumberOf(h.blockFlags)
           four == Four(5, 1, 0, n)
           zero == Encode(unsignedInteger, 0)
           size == Encode(byteString, Len(cut))
<1>1. SerializePayloadHeader(h) = four \o zero
  BY Zenon DEF SerializePayloadHeader, Four, EncodeUnsigned
<1>2. Fits(5) /\ Fits(1) /\ Fits(0) /\ Fits(n)  BY SmallFits, FlagsRead
<1>3. unsignedInteger \in 0..7 /\ byteString \in 0..7  BY DEF unsignedInteger, byteString
<1>4. zero \in Octets /\ size \in Octets  BY <1>2, <1>3, ItemBytes
<1>5. EncodeBytes(cut) = size \o cut  BY Zenon DEF EncodeBytes
<1> HIDE DEF n
<1>6. four \in Octets  BY <1>2, FourBytes
<1> HIDE DEF four, zero, size
<1> QED BY <1>1, <1>4, <1>5, <1>6, OctetsConcat

(* It is read as it was written.                                           *)
LEMMA PayloadRead ==
  ASSUME NEW b \in Octets, NEW i \in Nat, NEW h \in BundleType, NEW cut \in Octets,
         Fits(Len(cut)), HasAt(b, i, SerializePayloadHeader(h)),
         HasAt(b, i + Len(SerializePayloadHeader(h)), EncodeBytes(cut))
  PROVE  /\ DeserializePayload(b, i).flags = h.blockFlags
         /\ DeserializePayload(b, i).adu = cut
<1> DEFINE n == NumberOf(h.blockFlags)
           four == Four(5, 1, 0, n)
           zero == Encode(unsignedInteger, 0)
           header == SerializePayloadHeader(h)
           size == Encode(byteString, Len(cut))
           q == i + Len(header)
<1>1. header = four \o zero  BY Zenon DEF SerializePayloadHeader, Four, EncodeUnsigned
<1>2. Fits(5) /\ Fits(1) /\ Fits(0)  BY SmallFits
<1>3. Fits(n) /\ BitsOf(n, 0..7) = h.blockFlags  BY FlagsRead
<1>4. unsignedInteger \in 0..7 /\ byteString \in 0..7  BY DEF unsignedInteger, byteString
<1>5. zero \in Octets /\ size \in Octets  BY <1>2, <1>4, ItemBytes
<1> HIDE DEF n
<1>6. four \in Octets  BY <1>2, <1>3, FourBytes
<1>9. HasAt(b, i, header) /\ HasAt(b, q, size \o cut)
  BY DEF EncodeBytes
<1>10. HasAt(b, q, size) /\ HasAt(b, q + Len(size), cut)
  <2> HIDE DEF size, q
  <2> QED BY <1>5, <1>9, HasAtParts
<1>11. HasAt(b, i, four)
  <2> HIDE DEF four, zero, header
  <2> QED BY <1>1, <1>5, <1>6, <1>9, HasAtParts
<1>12. UnsignedAt(b, Nth(b, i, 4)) = n /\ Passed(b, i, 5, four)
  BY <1>2, <1>3, <1>11, FourRead
<1>13. Passed(b, i, 5 + 1, header)
  <2>1. HasAt(b, i, four \o Encode(unsignedInteger, 0))  BY <1>1, <1>9
  <2>2. 5 \in Nat \ {0}  OBVIOUS
  <2>3. header = four \o Encode(unsignedInteger, 0)  BY <1>1
  <2> HIDE DEF four, zero, header
  <2> QED BY <1>2, <1>4, <1>12, <2>1, <2>2, <2>3, NextPassed
<1>14. Nth(b, i, 6) = q
  <2>1. 5 + 1 = 6  OBVIOUS
  <2> HIDE DEF header
  <2> QED BY <1>13, <2>1 DEF Passed
<1>15. Item(b, q).value = Len(cut) /\ Item(b, q).next = q + Len(size)
  BY <1>4, <1>10, ItemRead
<1>16. SubSeq(b, q + Len(size), (q + Len(size)) + Len(cut) - 1) = cut
  <2> HIDE DEF q, size
  <2> QED BY <1>10, HasAtCut
<1> HIDE DEF q, size
<1>17. DecodeBytes(b, Item(b, Nth(b, i, 6))) = cut
  BY <1>14, <1>15, <1>16 DEF DecodeBytes
<1>18. DeserializePayload(b, i) = [flags |-> BitsOf(UnsignedAt(b, Nth(b, i, 4)), 0..7),
                                   adu |-> DecodeBytes(b, Item(b, Nth(b, i, 6)))]
  BY Zenon DEF DeserializePayload
<1>19. DeserializePayload(b, i) = [flags |-> h.blockFlags, adu |-> cut]
  BY <1>3, <1>12, <1>17, <1>18
<1> QED BY <1>19

(* What a buffer holds between its first and its last byte it holds        *)
(* without them, one place earlier.                                        *)
LEMMA HasAtInside ==
  ASSUME NEW b \in Octets, NEW s \in Octets, NEW i \in Nat \ {0}, NEW inner,
         inner = SubSeq(b, 2, Len(b) - 1), HasAt(b, i + 1, s), i + Len(s) < Len(b)
  PROVE  inner \in Octets /\ HasAt(inner, i, s)
<1> DEFINE n == Len(b)
           m == Len(s)
           cut == SubSeq(b, 2, n - 1)
<1>1. n \in Nat /\ m \in Nat /\ \A k \in 1..n : b[k] \in Octet
  BY DEF Octets
<1>2. i + m < n /\ inner = cut /\ \A k \in 1..m : b[(i + 1) + k - 1] = s[k]
  BY DEF HasAt
<1> HIDE DEF n, m
<1>3. \A k \in 2..(n - 1) : b[k] \in Octet
  <2>1. \A k \in 2..(n - 1) : k \in 1..n  BY <1>1
  <2> QED BY <1>1, <2>1
<1>4. /\ cut \in Seq(Octet)
      /\ Len(cut) = IF 2 <= n - 1 THEN (n - 1) - 2 + 1 ELSE 0
      /\ \A k \in 1..((n - 1) - 2 + 1) : cut[k] = b[2 + k - 1]
  <2>1. 2 \in Int /\ n - 1 \in Int  BY <1>1
  <2> QED BY <1>3, <2>1, SubSeqProperties
<1> HIDE DEF cut
<1>5. i + m - 1 <= Len(cut)
  <2>1. CASE 2 <= n - 1  BY <1>1, <1>2, <1>4, <2>1
  <2>2. CASE ~(2 <= n - 1)
    <3>1. i = 1 /\ m = 0  BY <1>1, <1>2, <2>2
    <3>2. Len(cut) = 0  BY <1>4, <2>2
    <3> QED BY <3>1, <3>2
  <2> QED BY <2>1, <2>2
<1>6. ASSUME NEW k \in 1..m PROVE cut[i + k - 1] = s[k]
  <2> DEFINE j == i + k - 1
  <2>1. j \in 1..((n - 1) - 2 + 1) /\ 2 + j - 1 = (i + 1) + k - 1  BY <1>1, <1>2
  <2> HIDE DEF j
  <2>2. cut[j] = b[2 + j - 1]  BY <1>4, <2>1
  <2>3. b[(i + 1) + k - 1] = s[k]  BY <1>2
  <2> QED BY <2>1, <2>2, <2>3 DEF j
<1>7. cut \in Octets  BY <1>4 DEF Octets
<1> QED BY <1>2, <1>5, <1>6, <1>7 DEF HasAt, m

(* DeserializeBundle returns what SerializeBundle wrote.                   *)
LEMMA BundleRead ==
  ASSUME bundle \in BundleType, Serializable
  PROVE  IsEncoded(Received.primary, Received.payload)
<1> DEFINE first == <<159>>
           last == <<255>>
           primary == SerializePrimary(bundle)
           header == SerializePayloadHeader(bundle)
           cut == Cut(bundle)
           body == EncodeBytes(cut)
           one == first \o primary
           two == one \o header
           three == two \o body
           b == SerializeBundle(bundle)
           inner == SubSeq(b, 2, Len(b) - 1)
           p == DeserializePrimary(inner, 1)
<1>1. first \in Octets /\ Len(first) = 1 /\ last \in Octets /\ Len(last) = 1
  BY DEF Octets, Octet
<1>2. primary \in Octets  BY PrimaryBytes
<1>3. cut \in Octets /\ Fits(Len(cut))
  <2>1. cut \in Octets /\ Len(cut) = bundle.blockLength  BY CutLen DEF Serializable
  <2>2. Fits(bundle.blockLength)  BY WordFits DEF BundleType, Words
  <2> QED BY <2>1, <2>2
<1>4. header \in Octets /\ body \in Octets
  <2> HIDE DEF cut
  <2> QED BY <1>3, PayloadBytes
<1>5. b = three \o last  BY Zenon DEF SerializeBundle
<1>6. Received = [primary |-> p, payload |-> DeserializePayload(inner, p.next)]
  BY Zenon DEF Received, DeserializeBundle
<1> HIDE DEF first, last, primary, header, body, b
<1>7. one \in Octets /\ Len(one) = 1 + Len(primary) /\ Len(primary) \in Nat
  <2>1. /\ first \o primary \in Octets /\ Len(first \o primary) = Len(first) + Len(primary)
        /\ Len(primary) \in Nat
    BY <1>1, <1>2, OctetsConcat
  <2> QED BY <1>1, <2>1, Zenon
<1> HIDE DEF one
<1>8. two \in Octets /\ Len(two) = Len(one) + Len(header) /\ Len(header) \in Nat
  BY <1>4, <1>7, OctetsConcat
<1> HIDE DEF two
<1>9. three \in Octets /\ Len(three) = Len(two) + Len(body) /\ Len(body) \in Nat
  BY <1>4, <1>8, OctetsConcat
<1> HIDE DEF three
<1>10. b \in Octets /\ Len(b) = Len(three) + 1
  <2>1. three \o last \in Octets /\ Len(three \o last) = Len(three) + Len(last)
    BY <1>1, <1>9, OctetsConcat
  <2> QED BY <1>1, <1>5, <2>1, Zenon
<1>11. HasAt(b, 1, three)
  <2>1. HasAt(b, 1, three \o last)  BY <1>5, <1>10, HasAtWhole
  <2> QED BY <1>1, <1>9, <1>10, <2>1, HasAtParts
<1>12. HasAt(b, 1, two) /\ HasAt(b, 1 + Len(two), body)
  BY <1>4, <1>8, <1>10, <1>11, HasAtParts DEF three
<1>13. HasAt(b, 1, one) /\ HasAt(b, 1 + Len(one), header)
  BY <1>4, <1>7, <1>10, <1>12, HasAtParts DEF two
<1>14. HasAt(b, 1 + 1, primary)
  <2>1. HasAt(b, 1 + Len(first), primary)  BY <1>1, <1>2, <1>10, <1>13, HasAtParts DEF one
  <2> QED BY <1>1, <2>1
<1> DEFINE l == Len(primary)
           m == Len(header)
           n == Len(body)
           end == 1 + l
<1>15. /\ l \in Nat /\ m \in Nat /\ n \in Nat /\ end \in Nat /\ Len(b) = end + m + n + 1
       /\ Len(one) = end /\ Len(two) = end + m
  BY <1>7, <1>8, <1>9, <1>10
<1> HIDE DEF l, m, n
<1>16. inner \in Octets /\ HasAt(inner, 1, primary)
  <2>1. 1 \in Nat \ {0} /\ 1 + l < Len(b)  BY <1>15
  <2> HIDE DEF inner
  <2>2. inner = SubSeq(b, 2, Len(b) - 1)  BY DEF inner
  <2> QED BY <1>2, <1>10, <1>14, <2>1, <2>2, HasAtInside DEF l
<1>17. HasAt(inner, end, header)
  <2>1. end \in Nat \ {0} /\ end + m < Len(b)  BY <1>15
  <2>2. HasAt(b, end + 1, header)
    <3>1. 1 + Len(one) = end + 1  BY <1>15
    <3> QED BY <1>13, <3>1
  <2>3. inner = SubSeq(b, 2, Len(b) - 1)  OBVIOUS
  <2> HIDE DEF inner, end
  <2> QED BY <1>4, <1>10, <2>1, <2>2, <2>3, HasAtInside DEF m
<1>18. HasAt(inner, end + m, body)
  <2>1. end + m \in Nat \ {0} /\ (end + m) + n < Len(b)  BY <1>15
  <2>2. HasAt(b, (end + m) + 1, body)
    <3>1. 1 + Len(two) = (end + m) + 1  BY <1>15
    <3> QED BY <1>12, <3>1
  <2>3. inner = SubSeq(b, 2, Len(b) - 1)  OBVIOUS
  <2> HIDE DEF inner, end
  <2> QED BY <1>4, <1>10, <2>1, <2>2, <2>3, HasAtInside DEF n
<1> HIDE DEF inner, p
<1>19. /\ p.flags = bundle.flags /\ p.lifetime = bundle.lifetime
       /\ \A r \in Roles : p.eid[r] = Decodable(bundle.eid[r])
       /\ \A k \in {"createTimestamp", "timestampSeqNum"} : p.number[k] = bundle.number[k]
       /\ Fragment \in bundle.flags => p.number = bundle.number
       /\ p.next = 1 + Len(primary)
  <2>1. p = DeserializePrimary(inner, 1) /\ 1 \in Nat  BY DEF p
  <2>2. HasAt(inner, 1, SerializePrimary(bundle))  BY <1>16 DEF primary
  <2> QED BY <1>16, <2>1, <2>2, PrimaryRead DEF primary
<1>20. p.next = end  BY <1>19 DEF l
<1>21. /\ DeserializePayload(inner, end).flags = bundle.blockFlags
       /\ DeserializePayload(inner, end).adu = cut
  <2>1. HasAt(inner, end, SerializePayloadHeader(bundle))  BY <1>17 DEF header
  <2>2. HasAt(inner, end + Len(SerializePayloadHeader(bundle)), EncodeBytes(cut))
    BY <1>18 DEF header, body, m
  <2> HIDE DEF cut, end
  <2> QED BY <1>3, <1>15, <1>16, <2>1, <2>2, PayloadRead
<1>22. Received.primary = p /\ Received.payload = DeserializePayload(inner, end)
  BY <1>6, <1>20
<1> HIDE DEF end
<1> QED BY <1>19, <1>21, <1>22 DEF IsEncoded

(* SerializeBundle, DeserializeBundle: what is decoded is what was encoded.*)
THEOREM Bundle7DecodedIsEncoded == Spec => []DecodedIsEncoded
<1>1. BundleTypeOK => DecodedIsEncoded
  BY BundleRead DEF BundleTypeOK, DecodedIsEncoded
<1>2. Spec => []BundleTypeOK  BY BundleTyped
<1> QED BY <1>1, <1>2, PTL
=============================================================================
