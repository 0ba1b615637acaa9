------------------------------ MODULE BitSets ------------------------------
(***************************************************************************)
(* A word of flags as the set of its bits that are 1 (BpHeader, BpHeader7, *)
(* BpBlockHeader and their getters).                                       *)
(***************************************************************************)
EXTENDS Integers

Width == 19   \* the bits of the processing flags, the widest word of flags

(* n >> k, at k.                                                           *)
Halved(n) ==
  LET by[k \in 0..Width] == IF k = 0 THEN n ELSE by[k - 1] \div 2
  IN  by

BitsOf(n, bits) == LET by == Halved(n) IN {b \in bits : by[b] % 2 = 1}

(* The sum of the bits, the highest first.                                 *)
NumberOf(bits) ==
  LET sum[k \in 0..Width] ==
        IF k = 0 THEN 0 ELSE 2 * sum[k - 1] + (IF Width - k \in bits THEN 1 ELSE 0)
  IN  sum[Width]
=============================================================================
