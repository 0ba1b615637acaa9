------------------------------ MODULE BpBundle ------------------------------
(***************************************************************************)
(* A version 6 bundle as the agent sees it: the primary header's fields    *)
(* that steer the agent, the length of the application data unit (ADU),    *)
(* the retention constraints and the list of acknowledged intervals.       *)
(*                                                                         *)
(* Creation timestamp and sequence number always travel together and are   *)
(* compared together (timestamp first), so the pair is one number, id.     *)
(* Sizes and offsets are byte counts; the bytes themselves are not kept.   *)
(***************************************************************************)
EXTENDS Integers, Sequences

CONSTANTS
  Eids,        \* endpoint ids, the null endpoint included
  defaultEid,  \* the null endpoint, dtn:none
  BundleSize,  \* m_bundleSize: largest payload of one transmitted bundle
  AppData      \* the content of a bundle that carries application data

ASSUME BundleAssumption ==
  /\ defaultEid \in Eids
  /\ BundleSize \in Nat \ {0}

(* The retention constraints _BP_DISPATCH_PENDING, _BP_FORWARD_PENDING and *)
(* _BP_CUSTODY_ACCEPTED.                                                   *)
DP == "dispatch pending"
FP == "forward pending"
CA == "custody accepted"
RetentionConstraints == {DP, FP, CA}

(* Lifetime zero means "never expires" in the simulator.                   *)
Lifetimes == {"never expires", "finite"}

(* What an ADU holds: application data, or an administrative record with a *)
(* succeeded custody signal for a piece [off, off + len) of bundle         *)
(* (src, id).  An unfragmented bundle is signalled with len 0.             *)
CustodySignals == [src : Eids, id : Nat, off : Nat, len : Nat]
Contents == {AppData} \cup CustodySignals

(* The acks list holds at most one interval: the only push_back is on an   *)
(* empty list.                                                             *)
NoAcks == <<>>
Acks == {NoAcks} \cup (Nat \X Nat)

Bundles ==
  [src : Eids, dst : Eids, id : Nat, prio : Nat, life : Lifetimes,
   custody : BOOLEAN, custEid : Eids,        \* CustTxReq, GetCustEid
   frag : BOOLEAN, off : Nat, aduLen : Nat,  \* IsFragment, GetFragOffset, GetAduLength
   size : Nat,                               \* m_adu->GetSize()
   content : Contents, ret : SUBSET RetentionConstraints, acks : Acks]

----------------------------------------------------------------------------
(* The bundle is fragmented when its ADU exceeds the bundle size, even if  *)
(* it is a fragment already; the header written for each transmission is   *)
(* the stored bundle's own header.                                         *)
MustFragment(b) == b.size > BundleSize

\* Mutant of Pieces: the last, short piece is not counted.
PiecesRoundedDown(b) == b.size \div BundleSize
Pieces(b) == (b.size + BundleSize - 1) \div BundleSize

PieceOffset(b, k) == IF MustFragment(b) THEN (k - 1) * BundleSize ELSE 0

\* Mutant of PieceSize: the last piece is cut one bundle too short.
PieceSizeTooShort(b, k) ==
  IF k * BundleSize <= b.size THEN BundleSize ELSE b.size - k * BundleSize
PieceSize(b, k) ==
  IF k * BundleSize <= b.size THEN BundleSize ELSE b.size - (k - 1) * BundleSize

(* The k-th bundle put on the wire for b. Retention constraints and acks   *)
(* stay behind: they are not part of the encoding.                         *)
Piece(b, k) ==
  [b EXCEPT !.frag = MustFragment(b), !.off = PieceOffset(b, k),
            !.size = PieceSize(b, k), !.ret = {}, !.acks = NoAcks]

Transmission(b) == [k \in 1..Pieces(b) |-> Piece(b, k)]

(* The header of the stored bundle after the loop: that of the last piece. *)
(* An empty ADU sends nothing and leaves the header alone.                 *)
AfterTransmission(b) ==
  IF b.size = 0 THEN b
  ELSE [b EXCEPT !.frag = MustFragment(b), !.off = PieceOffset(b, Pieces(b))]

----------------------------------------------------------------------------
(* Merging an acknowledged interval into the list: it is joined at either  *)
(* end of the interval held, becomes the list if that is empty, and is     *)
(* dropped otherwise.                                                      *)
\* Mutant of MergeAck: the hull of the two intervals, adjacent or not.
MergeAckHull(acks, ack) ==
  IF acks = NoAcks THEN ack
  ELSE << IF ack[1] < acks[1] THEN ack[1] ELSE acks[1],
          IF ack[2] > acks[2] THEN ack[2] ELSE acks[2] >>
\* Mutant of MergeAck: an interval is joined only behind what is held.
MergeAckBehind(acks, ack) ==
  IF acks = NoAcks THEN ack
  ELSE <<acks[1], IF acks[2] = ack[1] THEN ack[2] ELSE acks[2]>>
MergeAck(acks, ack) ==
  IF acks = NoAcks THEN ack
  ELSE << IF ack[2] = acks[1] THEN ack[1] ELSE acks[1],
          IF acks[2] = ack[1] THEN ack[2] ELSE acks[2] >>

FullyAcked(b) == b.acks = <<0, b.aduLen>>
=============================================================================
