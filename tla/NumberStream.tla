---------------------------- MODULE NumberStream ----------------------------
(***************************************************************************)
(* A buffer that headers write numbers to and read them from again, the    *)
(* way Serialize and Deserialize of version 6 use Sdnv, and those of       *)
(* version 7 the CBOR codec: nothing but the bytes says where a number     *)
(* ends.                                                                   *)
(***************************************************************************)
EXTENDS NumberFormats

CONSTANTS
  Numbers,   \* what is written
  MaxBytes   \* bound on the bytes not read yet

ASSUME StreamAssumption == (\A n \in Numbers : Cbor!Fits(n)) /\ MaxBytes \in Nat

VARIABLES
  version,  \* of the headers
  buffer,   \* the bytes from the reader's iterator to the writer's
  passed,   \* the number that was written or read last; -1 before the first
  pending   \* history: the numbers written and not read yet

vars == <<version, buffer, passed, pending>>

Encode(n) == IF version = 6 THEN Sdnv!Encode(n) ELSE Cbor!Encode(Cbor!unsignedInteger, n)

First(bytes) ==
  IF version = 6 THEN Sdnv!Decode(bytes, 1)
  ELSE Cbor!Decode(Cbor!unsignedInteger, Cbor!Item(bytes, 1))
Rest(bytes) ==
  SubSeq(bytes, IF version = 6 THEN Sdnv!Behind(bytes, 1) ELSE Cbor!Item(bytes, 1).next,
         Len(bytes))

Init == version \in {6, 7} /\ buffer = <<>> /\ passed = -1 /\ pending = <<>>

Write(n) ==
  /\ Len(buffer \o Encode(n)) <= MaxBytes
  /\ buffer' = buffer \o Encode(n)
  /\ passed' = n
  /\ pending' = Append(pending, n)
  /\ UNCHANGED version

Read ==
  /\ buffer # <<>>
  /\ passed' = First(buffer)
  /\ buffer' = Rest(buffer)
  /\ pending' = Tail(pending)
  /\ UNCHANGED version

Next == (\E n \in Numbers : Write(n)) \/ Read
Spec == Init /\ [][Next]_vars

----------------------------------------------------------------------------
Queue == INSTANCE NumberQueue WITH queue <- pending

(* The bytes implement a queue of numbers: what is read are the numbers    *)
(* that were written, whole, once and in that order, whatever their length *)
(* and the bytes before and behind them, and nothing is read beyond them   *)
(* (Sdnv::Encode and Decode, encodeTagAndValue and decodeTagAndValue).     *)
NumbersAreQueued == Queue!Spec
=============================================================================
