-------------------------------- MODULE Sdnv --------------------------------
(***************************************************************************)
(* Self-delimiting numeric values: seven bits to a byte, most significant  *)
(* first, 128 added to every byte but the last.                            *)
(***************************************************************************)
EXTENDS Integers, Sequences

Byte == 0..255

(* The bytes before the last one.                                          *)
Carried[val \in Nat] ==
  IF val = 0 THEN <<>> ELSE Append(Carried[val \div 128], (val % 128) + 128)

Encode(val) == Append(Carried[val \div 128], val % 128)

(* Where the number that starts at position i of a buffer ends.            *)
LastByte(buffer, i) ==
  CHOOSE j \in i..Len(buffer) : buffer[j] < 128 /\ \A k \in i..(j - 1) : buffer[k] >= 128

(* Decode(Buffer::Iterator): the number at i; the iterator moves behind    *)
(* its last byte.                                                          *)
Decode(buffer, i) ==
  LET value[j \in (i - 1)..LastByte(buffer, i)] ==
        IF j < i THEN 0 ELSE value[j - 1] * 128 + (buffer[j] % 128)
  IN  value[LastByte(buffer, i)]
Behind(buffer, i) == LastByte(buffer, i) + 1
=============================================================================
