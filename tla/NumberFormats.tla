---------------------------- MODULE NumberFormats ----------------------------
(* The two formats in which headers write numbers, side by side.           *)
EXTENDS Integers, Sequences

Sdnv == INSTANCE Sdnv   \* of version 6
Cbor == INSTANCE Cbor   \* of version 7
=============================================================================
