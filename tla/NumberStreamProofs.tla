------------------------- MODULE NumberStreamProofs -------------------------
(***************************************************************************)
(* Theorems about NumberStream: a buffer of numbers in either format       *)
(* implements a queue of numbers, for every set of numbers of 64 bits and  *)
(* every length of the buffer.                                             *)
(*                                                                         *)
(* The format is a code, of which the lemmas about buffers speak.          *)
(***************************************************************************)
EXTENDS NumberStream, NumberLemmas

(* The two formats as codes.                                               *)
CodeOf(v) ==
  [n \in Numbers |-> IF v = 6 THEN Sdnv!Encode(n) ELSE Cbor!Encode(Cbor!unsignedInteger, n)]

(* The numbers have up to 64 bits, and the tag is one.                      *)
LEMMA NumberFits ==
  ASSUME NEW n \in Numbers PROVE n \in Nat /\ Cbor!Fits(n) /\ Cbor!unsignedInteger \in 0..7
<1>1. Cbor!Fits(n)  BY StreamAssumption
<1>2. n \in Nat  BY <1>1 DEF Cbor!Fits
<1> QED BY <1>1, <1>2 DEF Cbor!unsignedInteger

(* Each format is a code of the numbers.                                    *)
LEMMA Coded == ASSUME NEW v PROVE IsCode(CodeOf(v)) /\ DOMAIN CodeOf(v) = Numbers
<1>1. ASSUME NEW n \in Numbers
      PROVE  CodeOf(v)[n] \in Octets /\ Len(CodeOf(v)[n]) \in Nat \ {0}
  <2>1. n \in Nat /\ Cbor!Fits(n) /\ Cbor!unsignedInteger \in 0..7  BY NumberFits
  <2>2. CASE v = 6
    <3>1. CodeOf(v)[n] = Sdnv!Encode(n)  BY <2>2 DEF CodeOf
    <3> QED BY <2>1, <3>1, SdnvBytes
  <2>3. CASE v # 6
    <3>1. CodeOf(v)[n] = Cbor!Encode(Cbor!unsignedInteger, n)  BY <2>3 DEF CodeOf
    <3> QED BY <2>1, <3>1, CborBytes
  <2> QED BY <2>2, <2>3
<1>2. CodeOf(v) \in [Numbers -> Octets] /\ DOMAIN CodeOf(v) = Numbers
  <2>1. CodeOf(v) = [n \in Numbers |-> CodeOf(v)[n]]  BY DEF CodeOf
  <2>2. DOMAIN CodeOf(v) = Numbers  BY DEF CodeOf
  <2> QED BY <1>1, <2>1, <2>2
<1> QED BY <1>1, <1>2 DEF IsCode

(* The reader takes the number whose bytes the buffer begins with.          *)
LEMMA FirstIsRead ==
  ASSUME NEW b \in Octets, NEW n \in Numbers, HasAt(b, 1, CodeOf(version)[n])
  PROVE  First(b) = n /\ Rest(b) = SubSeq(b, 1 + Len(CodeOf(version)[n]), Len(b))
<1>1. n \in Nat /\ Cbor!Fits(n) /\ Cbor!unsignedInteger \in 0..7  BY NumberFits
<1>2. CASE version = 6
  <2>1. CodeOf(version)[n] = Sdnv!Encode(n)  BY <1>2 DEF CodeOf
  <2>2. Sdnv!Decode(b, 1) = n /\ Sdnv!Behind(b, 1) = 1 + Len(Sdnv!Encode(n))
    BY <1>1, <2>1, SdnvDecodes
  <2>3. First(b) = n  BY <1>2, <2>2, Zenon DEF First
  <2>4. Rest(b) = SubSeq(b, Sdnv!Behind(b, 1), Len(b))  BY <1>2, Zenon DEF Rest
  <2> QED BY <2>1, <2>2, <2>3, <2>4
<1>3. CASE version # 6
  <2> DEFINE tag == Cbor!unsignedInteger
             item == Cbor!Item(b, 1)
  <2>1. CodeOf(version)[n] = Cbor!Encode(tag, n)  BY <1>3 DEF CodeOf
  <2>2. item.tag = tag /\ item.value = n /\ item.next = 1 + Len(Cbor!Encode(tag, n))
    <3>1. HasAt(b, 1, Cbor!Encode(tag, n))  BY <2>1
    <3>2. tag \in 0..7  BY <1>1
    <3> HIDE DEF tag
    <3> QED BY <1>1, <3>1, <3>2, CborDecodes
  <2>3. First(b) = Cbor!Decode(tag, item)  BY <1>3, Zenon DEF First
  <2>4. Cbor!Decode(tag, item) = n  BY <2>2, Zenon DEF Cbor!Decode
  <2>5. Rest(b) = SubSeq(b, item.next, Len(b))  BY <1>3, Zenon DEF Rest
  <2> HIDE DEF item, tag
  <2> QED BY <2>1, <2>2, <2>3, <2>4, <2>5
<1> QED BY <1>2, <1>3

----------------------------------------------------------------------------
(* The buffer holds the bytes of the pending numbers, one after the other, *)
(* and nothing else.                                                       *)
StreamInv == IsLaidOut(pending, buffer, CodeOf(version))

(* The empty buffer is the empty queue.                                     *)
LEMMA StreamInit == Init => StreamInv /\ Queue!Init
<1> SUFFICES ASSUME Init PROVE StreamInv /\ Queue!Init  OBVIOUS
<1>1. pending = <<>> /\ buffer = <<>> /\ passed = -1  BY DEF Init
<1> QED BY <1>1, EmptyLaidOut, Zenon DEF StreamInv, Queue!Init

(* Writing a number puts it into the queue.                                 *)
LEMMA WriteStep ==
  ASSUME StreamInv, NEW n \in Numbers, Write(n)
  PROVE  StreamInv' /\ Queue!Put(n)
<1>1. CodeOf(version)[n] = Encode(n)  BY DEF CodeOf, Encode
<1>2. IsLaidOut(Append(pending, n), buffer \o CodeOf(version)[n], CodeOf(version))
  BY Coded, Added DEF StreamInv
<1>3. /\ pending' = Append(pending, n) /\ buffer' = buffer \o CodeOf(version)[n]
      /\ version' = version /\ passed' = n
  BY <1>1 DEF Write
<1>4. StreamInv'  BY <1>2, <1>3 DEF StreamInv
<1>5. Queue!Put(n)  BY <1>3, Zenon DEF Queue!Put
<1> QED BY <1>4, <1>5

(* Reading takes the first number of the queue.                             *)
LEMMA ReadStep ==
  ASSUME StreamInv, Read PROVE StreamInv' /\ Queue!Get
<1> DEFINE code == CodeOf(version)
           n == Head(pending)
<1>1. IsCode(code) /\ DOMAIN code = Numbers /\ IsLaidOut(pending, buffer, code)
  BY Coded DEF StreamInv
<1>2. pending # <<>>
  <2> SUFFICES ASSUME pending = <<>> PROVE FALSE  OBVIOUS
  <2>1. buffer = <<>>  BY <1>1, NothingElse
  <2> QED BY <2>1 DEF Read
<1>3. /\ n \in Numbers /\ HasAt(buffer, 1, code[n])
      /\ IsLaidOut(Tail(pending), SubSeq(buffer, 1 + Len(code[n]), Len(buffer)), code)
  <2> HIDE DEF code, n
  <2>1. /\ Head(pending) \in DOMAIN code /\ HasAt(buffer, 1, code[Head(pending)])
        /\ IsLaidOut(Tail(pending), SubSeq(buffer, 1 + Len(code[Head(pending)]), Len(buffer)), code)
    BY <1>1, <1>2, Taken
  <2> QED BY <1>1, <2>1 DEF n
<1>4. buffer \in Octets  BY <1>1 DEF IsLaidOut, Layout
<1>5. First(buffer) = n /\ Rest(buffer) = SubSeq(buffer, 1 + Len(code[n]), Len(buffer))
  <2> HIDE DEF n
  <2> QED BY <1>3, <1>4, FirstIsRead
<1>6. /\ pending' = Tail(pending) /\ buffer' = Rest(buffer) /\ passed' = First(buffer)
      /\ version' = version
  BY DEF Read
<1>7. StreamInv'  BY <1>3, <1>5, <1>6 DEF StreamInv
<1>8. Queue!Get  BY <1>2, <1>5, <1>6, Zenon DEF Queue!Get
<1> QED BY <1>7, <1>8

(* Every step preserves the invariant and is one of the queue, or none.     *)
LEMMA StreamNext == StreamInv /\ [Next]_vars => StreamInv' /\ [Queue!Next]_Queue!vars
<1> SUFFICES ASSUME StreamInv, [Next]_vars PROVE StreamInv' /\ [Queue!Next]_Queue!vars
  OBVIOUS
<1>1. ASSUME NEW n \in Numbers, Write(n) PROVE StreamInv' /\ Queue!Next
  BY <1>1, WriteStep DEF Queue!Next
<1>2. ASSUME Read PROVE StreamInv' /\ Queue!Next
  BY <1>2, ReadStep DEF Queue!Next
<1>3. CASE UNCHANGED vars
  BY <1>3 DEF vars, StreamInv, Queue!vars
<1> QED BY <1>1, <1>2, <1>3 DEF Next

(* The buffer consists of the bytes of the numbers that were written and   *)
(* not read, in either format (Sdnv::Encode, encodeTagAndValue).           *)
THEOREM StreamInvariant == Spec => []StreamInv
<1>1. Init => StreamInv  BY StreamInit
<1>2. StreamInv /\ [Next]_vars => StreamInv'  BY StreamNext
<1> QED BY <1>1, <1>2, PTL DEF Spec

(* The bytes implement a queue of numbers: every number of 64 bits is read *)
(* as it was written, whole, once and in order, whatever stands before and *)
(* behind it (Sdnv::Encode and Decode, encodeTagAndValue and               *)
(* decodeTagAndValue).                                                     *)
THEOREM NumbersQueued == Spec => NumbersAreQueued
<1>1. Init => StreamInv /\ Queue!Init  BY StreamInit
<1>2. StreamInv /\ [Next]_vars => StreamInv' /\ [Queue!Next]_Queue!vars  BY StreamNext
<1> QED BY <1>1, <1>2, PTL DEF Spec, NumbersAreQueued, Queue!Spec
=============================================================================
