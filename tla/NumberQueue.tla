----------------------------- MODULE NumberQueue -----------------------------
(***************************************************************************)
(* What a buffer of self-delimiting numbers promises: numbers are read     *)
(* whole, once, and in the order they were written.                        *)
(***************************************************************************)
EXTENDS Integers, Sequences

CONSTANT Numbers

VARIABLES
  queue,  \* written and not read yet
  passed  \* the number that was written or read last; -1 before the first

vars == <<queue, passed>>

Init == queue = <<>> /\ passed = -1

Put(n) == queue' = Append(queue, n) /\ passed' = n

Get ==
  /\ queue # <<>>
  /\ passed' = Head(queue)
  /\ queue' = Tail(queue)

Next == (\E n \in Numbers : Put(n)) \/ Get
Spec == Init /\ [][Next]_vars
=============================================================================
